---- MODULE Spec2Model ----
(***************************************************************************)
(* The evaluation harness of starlark-mcp: the single-trial runner         *)
(* (runEval), the concurrent run engine (main) and the 429-aware retry     *)
(* loop of the role-message client (OpenAIClient.doWithRetry).             *)
(*                                                                         *)
(* Texts are sequences of tokens, so that prefixing, trimming and          *)
(* comparing a text are computed and not assumed.                          *)
(***************************************************************************)
EXTENDS Integers, Sequences, FiniteSets, Bags, TLC

VARIABLES trial, run, http, wire, startup

vars == <<trial, run, http, wire, startup>>

(***************************************************************************)
(* Bounds of the model.                                                    *)
(***************************************************************************)
MaxAttemptsFlag == 3
MaxItersFlag == 4
\* -runs: the runs of each selected case in the run engine.
numRuns == 1

(***************************************************************************)
(* Conversation model (package llm).                                       *)
(***************************************************************************)
RoleUser == "user"
RoleAssistant == "assistant"

NoToolResult == [none |-> TRUE]

ToolResult(toolCallID, content, isError) ==
    [ToolCallID |-> toolCallID, Content |-> content, IsError |-> isError]

Message(role, text, toolCalls, toolResult) ==
    [Role |-> role, Text |-> text, ToolCalls |-> toolCalls, ToolResult |-> toolResult]

\* A tool call as the client returns it; Input is the raw JSON payload, here
\* the token "{}" for an object and "x" for a payload json.Unmarshal rejects.
ToolCall(id, name, input) == [ID |-> id, Name |-> name, Input |-> input]

CallA == ToolCall("call-1", "execute-starlark", <<"{}">>)
CallB == ToolCall("call-2", "execute-starlark", <<"x">>)
NoCall == ToolCall("", "", <<>>)

(***************************************************************************)
(* Judge predicates (cases.go).                                            *)
(***************************************************************************)
Whitespace == {" ", "\t", "\n", "\r"}

RECURSIVE TrimRight(_)
TrimRight(s) ==
    IF s # <<>> /\ s[Len(s)] \in Whitespace
    THEN TrimRight(SubSeq(s, 1, Len(s) - 1))
    ELSE s

exactOutput(expected, output) == TrimRight(output) = TrimRight(expected)

evalCase(name, tier, prompt, expected) ==
    [name |-> name, tier |-> tier, prompt |-> prompt, expected |-> expected]

judge(ec, output) == exactOutput(ec.expected, output)

cases ==
    << evalCase(<<"h", "e", "l", "l", "o">>, 1, <<"print ok">>, <<"ok", "\n">>),
       evalCase(<<"n", "e", "g", "a", "t", "e">>, 2, <<"print no">>, <<"no">>) >>

TheCase == cases[1]

(***************************************************************************)
(* Helpers of the single-trial runner.                                     *)
(***************************************************************************)
responseToHistory(resp) ==
    Message(RoleAssistant, resp.Text, resp.ToolCalls, NoToolResult)

toolResultMessageNoFlag(toolCallID, content, isError) ==
    Message(RoleUser, <<>>, <<>>, ToolResult(toolCallID, content, FALSE))
toolResultMessage(toolCallID, content, isError) ==
    Message(RoleUser, <<>>, <<>>, ToolResult(toolCallID, content, isError))

nudgeMessageAsAssistant(text) == Message(RoleAssistant, text, <<>>, NoToolResult)
nudgeMessage(text) == Message(RoleUser, text, <<>>, NoToolResult)

toolResultWithNudge(toolCallID, content, nudge) ==
    Message(RoleUser, nudge, <<>>, ToolResult(toolCallID, content, FALSE))

UseToolNudge == <<"Please use the provided tool">>
TryAgainNudge == <<"The output did not match the expected result">>

\* What the MCP session answers to CallTool: a transport error, or a result
\* with its text and its isError flag.
SessionOutcomes ==
    { [err |-> <<>>, text |-> <<"ok">>, isError |-> FALSE],
      [err |-> <<>>, text |-> <<"no", "\n">>, isError |-> FALSE],
      [err |-> <<>>, text |-> <<"boom">>, isError |-> TRUE],
      [err |-> <<"closed">>, text |-> <<>>, isError |-> FALSE] }

\* callMCPTool: (output, isError, err). The payload is unmarshalled first, and
\* a payload that is no JSON object fails before the session is called.
callMCPTool(call, session) ==
    IF call.Input # <<"{}">>
    THEN [output |-> <<>>, isError |-> FALSE,
          err |-> <<"unmarshal tool input: ", "invalid character">>]
    ELSE IF session.err # <<>>
    THEN [output |-> <<>>, isError |-> FALSE,
          err |-> <<"CallTool ", call.Name, ": ">> \o session.err]
    ELSE [output |-> session.text, isError |-> session.isError, err |-> <<>>]

\* Scores are the rationals num/den: 1.0 / math.Pow(2, Attempts-1) is 1/2^(Attempts-1).
Rat(num, den) == [num |-> num, den |-> den]

RECURSIVE Pow2(_)
Pow2(k) == IF k <= 0 THEN 1 ELSE 2 * Pow2(k - 1)

passScoreHalved(attempts) == Rat(1, Pow2(attempts))
passScore(attempts) == Rat(1, Pow2(attempts - 1))

(***************************************************************************)
(* runEval as a state machine over one trial record.                       *)
(*   pc = "loop"  at the head of the for loop                              *)
(*   pc = "llm"   client.SendMessage is outstanding                        *)
(*   pc = "tool"  callMCPTool is outstanding                               *)
(*   pc = "done"  runEval has returned result                              *)
(*   pc = "fatal" log.Fatalf has ended the process                         *)
(* resp, toolCall and toolRet are the locals of the loop body. llmCalls,    *)
(* llmReplies, toolInvocations and toolReturns record the calls made and   *)
(* what they returned; they are history, the program does not read them.   *)
(***************************************************************************)
Usage(inputTokens, outputTokens) == [InputTokens |-> inputTokens, OutputTokens |-> outputTokens]

NoResponse == [err |-> FALSE, Text |-> <<>>, ToolCalls |-> <<>>, Usage |-> Usage(0, 0)]
NoToolReturn == [output |-> <<>>, isError |-> FALSE, err |-> <<>>]

evalConfig(maxAttempts, maxIters) == [maxAttempts |-> maxAttempts, maxIters |-> maxIters]

runEvalStart(ec, cfg) ==
    [pc |-> "loop", ec |-> ec, cfg |-> cfg, iter |-> 0,
     messages |-> <<Message(RoleUser, ec.prompt, <<>>, NoToolResult)>>,
     Passed |-> FALSE, Attempts |-> 0, Score |-> Rat(0, 1), Outputs |-> <<>>,
     TokensIn |-> 0, TokensOut |-> 0,
     resp |-> NoResponse, toolCall |-> NoCall, toolRet |-> NoToolReturn,
     llmCalls |-> 0, llmReplies |-> 0, llmReturns |-> <<>>,
     toolInvocations |-> 0, toolReturns |-> <<>>]

loopContinuesPastAttempts(t) == t.iter < t.cfg.maxIters /\ t.Attempts <= t.cfg.maxAttempts
loopContinuesPastIters(t) == t.iter <= t.cfg.maxIters /\ t.Attempts < t.cfg.maxAttempts
loopContinues(t) == t.iter < t.cfg.maxIters /\ t.Attempts < t.cfg.maxAttempts

\* The head of the loop: either the next SendMessage is issued, or the loop
\* is left and the failed result is returned.
runEvalLoopHeadTwice(t) ==
    IF loopContinues(t)
    THEN [t EXCEPT !.pc = "llm", !.llmCalls = @ + 2]
    ELSE [t EXCEPT !.pc = "done", !.Passed = FALSE, !.Score = Rat(0, 1)]
runEvalLoopHead(t) ==
    IF loopContinues(t)
    THEN [t EXCEPT !.pc = "llm", !.llmCalls = @ + 1]
    ELSE [t EXCEPT !.pc = "done", !.Passed = FALSE, !.Score = Rat(0, 1)]

\* The model responses a trial may see.
LLMResponses ==
    { [err |-> FALSE, Text |-> <<"thinking">>, ToolCalls |-> <<>>, Usage |-> Usage(7, 2)],
      [err |-> FALSE, Text |-> <<>>, ToolCalls |-> <<CallA>>, Usage |-> Usage(9, 4)],
      [err |-> FALSE, Text |-> <<"run">>, ToolCalls |-> <<CallB, CallA>>, Usage |-> Usage(9, 5)],
      [err |-> TRUE, Text |-> <<>>, ToolCalls |-> <<>>, Usage |-> Usage(0, 0)] }

lastToolCall(resp) == resp.ToolCalls[Len(resp.ToolCalls)]
firstToolCall(resp) == resp.ToolCalls[1]

\* SendMessage returns.
runEvalLLMReturn(t, resp) ==
    IF resp.err
    THEN [t EXCEPT !.pc = "fatal", !.resp = resp, !.llmReturns = Append(@, resp)]
    ELSE LET u == [t EXCEPT !.resp = resp, !.llmReplies = @ + 1,
                            !.llmReturns = Append(@, resp),
                            !.TokensIn = @ + resp.Usage.InputTokens,
                            !.TokensOut = @ + resp.Usage.OutputTokens,
                            !.messages = Append(@, responseToHistory(resp))]
         IN
         IF Len(resp.ToolCalls) = 0
         THEN [u EXCEPT !.pc = "loop", !.iter = @ + 1,
                        !.messages = Append(@, nudgeMessage(UseToolNudge))]
         ELSE [u EXCEPT !.pc = "tool",
                        !.toolCall = firstToolCall(resp),
                        !.toolInvocations = @ + 1]

errorOutputRaw(text) == text
errorOutput(text) == <<"ERROR: ">> \o text

\* callMCPTool returns.
runEvalToolReturn(t, r) ==
    LET attempts == t.Attempts + 1
        u == [t EXCEPT !.Attempts = attempts, !.toolRet = r,
                       !.toolReturns = Append(@, r)]
    IN
    IF r.err # <<>>
    THEN [u EXCEPT !.pc = "loop", !.iter = @ + 1,
                   !.Outputs = Append(@, errorOutput(r.err)),
                   !.messages = Append(@, toolResultMessage(t.toolCall.ID, r.err, TRUE))]
    ELSE IF r.isError
    THEN [u EXCEPT !.pc = "loop", !.iter = @ + 1,
                   !.Outputs = Append(@, errorOutput(r.output)),
                   !.messages = Append(@, toolResultMessage(t.toolCall.ID, r.output, TRUE))]
    ELSE IF judge(t.ec, r.output)
    THEN [u EXCEPT !.pc = "done",
                   !.Outputs = Append(@, r.output),
                   !.Passed = TRUE, !.Score = passScore(attempts)]
    ELSE [u EXCEPT !.pc = "loop", !.iter = @ + 1,
                   !.Outputs = Append(@, r.output),
                   !.messages =
                       IF attempts < t.cfg.maxAttempts
                       THEN Append(@, toolResultWithNudge(t.toolCall.ID, r.output, TryAgainNudge))
                       ELSE @]

(***************************************************************************)
(* The concurrent run engine (main): one goroutine per (case, run) unit.   *)
(*   unit pc = "gate"     started, waiting to send on sem                  *)
(*   unit pc = "trial"    holds a permit, runSingleEval is running         *)
(*   unit pc = "write"    runSingleEval has returned res                   *)
(*   unit pc = "release"  slot written, the deferred receive on sem is due *)
(*   unit pc = "wgdone"   permit released, the deferred wg.Done is due     *)
(*   unit pc = "finished" the goroutine has ended                          *)
(* phase = "running" until wg.Wait returns, then "summary"; log.Fatalf in  *)
(* any goroutine makes it "exited" (os.Exit(1)): nothing runs afterwards.  *)
(***************************************************************************)
maxConcurrent == 8

selected == cases
Units == (1..Len(selected)) \X (1..numRuns)

NoResult == [written |-> FALSE]
evalResult(t) ==
    [written |-> TRUE, ec |-> t.ec, Passed |-> t.Passed, Attempts |-> t.Attempts,
     Score |-> t.Score, Outputs |-> t.Outputs,
     TokensIn |-> t.TokensIn, TokensOut |-> t.TokensOut]

\* The flags of the run engine's exploration.
RunConfig == evalConfig(1, 1)

\* What the clients and sessions of the units answer in a run. A call made
\* with a context that is already cancelled fails.
RunLLMResponses == {r \in LLMResponses : r.err \/ r.ToolCalls = <<CallA>>}
RunSessionOutcomes == {o \in SessionOutcomes : o.err = <<>> /\ ~o.isError}
CancelledLLMResponses == {r \in LLMResponses : r.err}
CancelledSessionOutcomes == {o \in SessionOutcomes : o.err # <<>>}

\* sem := make(chan struct{}, maxConcurrent): a send proceeds while the
\* buffer has room, a receive takes one element out.
semHasRoomAlways(sem) == TRUE
semHasRoom(sem) == sem < maxConcurrent
semSend(sem) == sem + 1
semReceiveNothing(sem) == sem
semReceive(sem) == sem - 1

\* The variables i and r of the two range loops, as the goroutine's closure
\* sees them: each iteration has its own.
closureVarsShared(i, r) == [i |-> Len(selected), r |-> numRuns]
closureVars(i, r) == [i |-> i, r |-> r]

goroutine(ec, cfg, i, r) ==
    [pc |-> "gate", trial |-> runEvalStart(ec, cfg),
     captured |-> closureVars(i, r), ctxDoneAtCall |-> FALSE]

mainStartWithoutAdd ==
    [phase |-> "running", cancelled |-> FALSE, sem |-> 0, wg |-> 0,
     units |-> [u \in Units |-> goroutine(selected[u[1]], RunConfig, u[1], u[2])],
     allResults |-> [u \in Units |-> NoResult],
     writes |-> [u \in Units |-> <<>>],
     runsDone |-> [i \in 1..Len(selected) |-> 0],
     runsPassed |-> [i \in 1..Len(selected) |-> 0],
     summaryOf |-> <<>>]
mainStart ==
    [phase |-> "running", cancelled |-> FALSE, sem |-> 0, wg |-> Cardinality(Units),
     units |-> [u \in Units |-> goroutine(selected[u[1]], RunConfig, u[1], u[2])],
     allResults |-> [u \in Units |-> NoResult],
     writes |-> [u \in Units |-> <<>>],
     runsDone |-> [i \in 1..Len(selected) |-> 0],
     runsPassed |-> [i \in 1..Len(selected) |-> 0],
     summaryOf |-> <<>>]

TrialIdle == runEvalStart(TheCase, evalConfig(1, 1))
RunIdle == [phase |-> "idle"]
HttpIdle == [pc |-> "idle"]
WireIdle == [pc |-> "idle"]
StartupIdle == [pc |-> "idle"]

\* The steps runSingleEval can take from the trial record t: the next
\* statement of runEval with each outcome of the call that returns.
runSingleEval(t, responses, outcomes) ==
    IF t.pc = "loop" THEN {runEvalLoopHead(t)}
    ELSE IF t.pc = "llm" THEN {runEvalLLMReturn(t, resp) : resp \in responses}
    ELSE IF t.pc = "tool"
    THEN {runEvalToolReturn(t, callMCPTool(t.toolCall, o)) : o \in outcomes}
    ELSE {}

\* The outcomes of the call a goroutine has outstanding, given the state of
\* the context when the call was made and now.
llmOutcomes(g, cancelled) ==
    IF g.ctxDoneAtCall THEN CancelledLLMResponses ELSE RunLLMResponses
toolOutcomes(g, cancelled) ==
    IF g.ctxDoneAtCall THEN CancelledSessionOutcomes
    ELSE IF cancelled THEN RunSessionOutcomes \cup CancelledSessionOutcomes
    ELSE RunSessionOutcomes

\* The goroutine after its trial has moved to t.
afterStep(g, t, cancelled) ==
    [g EXCEPT !.trial = t,
              !.pc = IF t.pc = "done" THEN "write" ELSE @,
              !.ctxDoneAtCall = cancelled /\ t.pc \in {"llm", "tool"}]

\* The process ends when log.Fatalf runs in any goroutine.
afterTrialStep(r, u, t) ==
    [r EXCEPT !.units[u] = afterStep(@, t, r.cancelled),
              !.phase = IF t.pc = "fatal" THEN "exited" ELSE @]

InitRun ==
    /\ run = mainStart
    /\ trial = TrialIdle
    /\ http = HttpIdle
    /\ wire = WireIdle
    /\ startup = StartupIdle

\* sem <- struct{}{}
UnitAcquire(u) ==
    /\ run.phase = "running"
    /\ run.units[u].pc = "gate"
    /\ semHasRoom(run.sem)
    /\ run' = [run EXCEPT !.sem = semSend(@), !.units[u].pc = "trial"]
    /\ UNCHANGED <<trial, http, wire, startup>>

\* runSingleEval: one step of runEval of the unit's own trial.
UnitTrialStep(u) ==
    /\ run.phase = "running"
    /\ run.units[u].pc = "trial"
    /\ LET g == run.units[u] IN
       \E t \in runSingleEval(g.trial, llmOutcomes(g, run.cancelled),
                              toolOutcomes(g, run.cancelled)) :
           run' = afterTrialStep(run, u, t)
    /\ UNCHANGED <<trial, http, wire, startup>>

\* allResults[i].Runs[r] = res; disp.finishRun(i, res.Passed, res.Duration)
UnitWrite(u) ==
    /\ run.phase = "running"
    /\ run.units[u].pc = "write"
    /\ LET res == evalResult(run.units[u].trial)
           i == run.units[u].captured.i
           r == run.units[u].captured.r
       IN
       run' = [run EXCEPT !.allResults[<<i, r>>] = res,
                          !.writes[<<i, r>>] = Append(@, u),
                          !.runsDone[i] = @ + 1,
                          !.runsPassed[i] = IF res.Passed THEN @ + 1 ELSE @,
                          !.units[u].pc = "release"]
    /\ UNCHANGED <<trial, http, wire, startup>>

\* defer func() { <-sem }()
UnitRelease(u) ==
    /\ run.phase = "running"
    /\ run.units[u].pc = "release"
    /\ run' = [run EXCEPT !.sem = semReceive(@), !.units[u].pc = "wgdone"]
    /\ UNCHANGED <<trial, http, wire, startup>>

\* defer wg.Done()
UnitDone(u) ==
    /\ run.phase = "running"
    /\ run.units[u].pc = "wgdone"
    /\ run' = [run EXCEPT !.wg = @ - 1, !.units[u].pc = "finished"]
    /\ UNCHANGED <<trial, http, wire, startup>>

\* The interrupt signal cancels the context of signal.NotifyContext.
Interrupt ==
    /\ run.phase = "running"
    /\ ~run.cancelled
    /\ run' = [run EXCEPT !.cancelled = TRUE]
    /\ UNCHANGED <<trial, http, wire, startup>>

\* wg.Wait() returns; disp.stop(); printSummary reads every slot.
MainSummary ==
    /\ run.phase = "running"
    /\ run.wg = 0
    /\ run' = [run EXCEPT !.phase = "summary", !.summaryOf = run.allResults]
    /\ UNCHANGED <<trial, http, wire, startup>>

NextRun ==
    \/ \E u \in Units :
          UnitAcquire(u) \/ UnitTrialStep(u) \/ UnitWrite(u) \/ UnitRelease(u) \/ UnitDone(u)
    \/ Interrupt
    \/ MainSummary

SpecRun == InitRun /\ [][NextRun]_vars

(***************************************************************************)
(* The admission gate under load: more goroutines than permits. The        *)
(* goroutines of one case are interchangeable, so the run keeps the bag of *)
(* their states (pool) and the bag of the results written (written).       *)
(***************************************************************************)
GateRuns == 9

\* The flags of the gate's exploration, and what the sessions answer in it.
GateConfig == evalConfig(1, 1)
GateSessionOutcomes == {o \in RunSessionOutcomes : judge(TheCase, o.text)}

Copies(e, n) == [x \in {e} |-> n]
Moved(pool, from, to) == (pool (-) Copies(from, 1)) (+) Copies(to, 1)
CountOf(pool, pcs) ==
    BagCardinality([e \in {x \in BagToSet(pool) : x.pc \in pcs} |-> pool[e]])

gateStart ==
    [phase |-> "running", cancelled |-> FALSE, sem |-> 0, wg |-> GateRuns,
     pool |-> Copies(goroutine(TheCase, GateConfig, 1, 1), GateRuns),
     written |-> EmptyBag,
     summaryOf |-> EmptyBag]

InitGate ==
    /\ run = gateStart
    /\ trial = TrialIdle
    /\ http = HttpIdle
    /\ wire = WireIdle
    /\ startup = StartupIdle

\* sem <- struct{}{}
GateAcquire ==
    /\ run.phase = "running"
    /\ semHasRoom(run.sem)
    /\ \E g \in BagToSet(run.pool) :
          /\ g.pc = "gate"
          /\ run' = [run EXCEPT !.sem = semSend(@),
                                !.pool = Moved(@, g, [g EXCEPT !.pc = "trial"])]
    /\ UNCHANGED <<trial, http, wire, startup>>

\* runSingleEval: one step of runEval of one goroutine's trial.
GateTrialStep ==
    /\ run.phase = "running"
    /\ \E g \in BagToSet(run.pool) :
          /\ g.pc = "trial"
          /\ \E t \in runSingleEval(g.trial, llmOutcomes(g, run.cancelled),
                                    GateSessionOutcomes) :
                run' = [run EXCEPT !.pool = Moved(@, g, afterStep(g, t, run.cancelled)),
                                   !.phase = IF t.pc = "fatal" THEN "exited" ELSE @]
    /\ UNCHANGED <<trial, http, wire, startup>>

\* allResults[i].Runs[r] = res
GateWrite ==
    /\ run.phase = "running"
    /\ \E g \in BagToSet(run.pool) :
          /\ g.pc = "write"
          /\ run' = [run EXCEPT !.written = @ (+) Copies(evalResult(g.trial), 1),
                                !.pool = Moved(@, g, [g EXCEPT !.pc = "release"])]
    /\ UNCHANGED <<trial, http, wire, startup>>

\* defer func() { <-sem }()
GateRelease ==
    /\ run.phase = "running"
    /\ \E g \in BagToSet(run.pool) :
          /\ g.pc = "release"
          /\ run' = [run EXCEPT !.sem = semReceive(@),
                                !.pool = Moved(@, g, [g EXCEPT !.pc = "wgdone"])]
    /\ UNCHANGED <<trial, http, wire, startup>>

\* defer wg.Done()
GateDone ==
    /\ run.phase = "running"
    /\ \E g \in BagToSet(run.pool) :
          /\ g.pc = "wgdone"
          /\ run' = [run EXCEPT !.wg = @ - 1,
                                !.pool = Moved(@, g, [g EXCEPT !.pc = "finished"])]
    /\ UNCHANGED <<trial, http, wire, startup>>

\* wg.Wait() returns; printSummary reads the table.
GateSummary ==
    /\ run.phase = "running"
    /\ run.wg = 0
    /\ run' = [run EXCEPT !.phase = "summary", !.summaryOf = run.written]
    /\ UNCHANGED <<trial, http, wire, startup>>

NextGate ==
    GateAcquire \/ GateTrialStep \/ GateWrite \/ GateRelease \/ GateDone \/ GateSummary

SpecGate == InitGate /\ [][NextGate]_vars

\* The Go scheduler runs every goroutine that can run, and the runtime hands
\* a freed slot of sem to a blocked sender.
SpecGateFair == SpecGate /\ WF_vars(NextGate)

(***************************************************************************)
(* 64-bit integers (int, int64, time.Duration). A word is a sequence of    *)
(* limbs, least significant first, in two's complement; sums and products  *)
(* wrap at the width of their operands, as Go's do.                        *)
(***************************************************************************)
LimbBase == 256
Int64Limbs == 8
WideLimbs == 16

RECURSIVE NatLimbs(_, _)
NatLimbs(n, k) == IF k = 0 THEN <<>> ELSE <<n % LimbBase>> \o NatLimbs(n \div LimbBase, k - 1)

I64(n) == NatLimbs(n, Int64Limbs)
Wide(n) == NatLimbs(n, WideLimbs)

RECURSIVE AddCarry(_, _, _, _)
AddCarry(a, b, i, c) ==
    IF i > Len(a) THEN <<>>
    ELSE LET sum == a[i] + b[i] + c IN
         <<sum % LimbBase>> \o AddCarry(a, b, i + 1, sum \div LimbBase)

Add(a, b) == AddCarry(a, b, 1, 0)

RECURSIVE Column(_, _, _, _)
Column(a, b, k, i) == IF i > k THEN 0 ELSE a[i] * b[k + 1 - i] + Column(a, b, k, i + 1)

RECURSIVE MulCarry(_, _, _, _)
MulCarry(a, b, k, c) ==
    IF k > Len(a) THEN <<>>
    ELSE LET sum == Column(a, b, k, 1) + c IN
         <<sum % LimbBase>> \o MulCarry(a, b, k + 1, sum \div LimbBase)

Mul(a, b) == MulCarry(a, b, 1, 0)

\* a * m for a small natural m
RECURSIVE ScaleCarry(_, _, _, _)
ScaleCarry(a, m, i, c) ==
    IF i > Len(a) THEN <<>>
    ELSE LET sum == a[i] * m + c IN
         <<sum % LimbBase>> \o ScaleCarry(a, m, i + 1, sum \div LimbBase)

Scale(a, m) == ScaleCarry(a, m, 1, 0)

IsZero(a) == \A i \in 1..Len(a) : a[i] = 0
IsNeg(a) == a[Len(a)] >= LimbBase \div 2
Neg(a) == Add([i \in 1..Len(a) |-> LimbBase - 1 - a[i]], NatLimbs(1, Len(a)))
Sub(a, b) == Add(a, Neg(b))

\* a < b as signed words of the same width
Less(a, b) ==
    IF IsNeg(a) # IsNeg(b) THEN IsNeg(a) ELSE IsNeg(Sub(a, b))

ShiftRight1(a) ==
    [i \in 1..Len(a) |->
        (a[i] \div 2) + (IF i < Len(a) THEN (a[i + 1] % 2) * (LimbBase \div 2) ELSE 0)]

\* a / 2 of Go: the quotient truncated toward zero
Half(a) == IF IsNeg(a) THEN Neg(ShiftRight1(Neg(a))) ELSE ShiftRight1(a)

\* The word of width WideLimbs with the same value as the signed word a
Widen(a) ==
    [i \in 1..WideLimbs |->
        IF i <= Len(a) THEN a[i] ELSE IF IsNeg(a) THEN LimbBase - 1 ELSE 0]

Truncate(a) == SubSeq(a, 1, Int64Limbs)

Nanosecond == I64(1)
Millisecond == I64(1000000)
Second == I64(1000000000)
Seconds(n) == Mul(I64(n), Second)

(***************************************************************************)
(* strconv.Atoi and parseRetryAfter. A header value is the sequence of its *)
(* characters.                                                             *)
(***************************************************************************)
Digits == <<"0", "1", "2", "3", "4", "5", "6", "7", "8", "9">>
IsDigit(c) == \E i \in 1..10 : Digits[i] = c
DigitValue(c) == (CHOOSE i \in 1..10 : Digits[i] = c) - 1

\* The value of a digit string, computed at width WideLimbs (no wrap for the
\* header values of the model).
RECURSIVE DecimalValue(_)
DecimalValue(ds) ==
    IF ds = <<>> THEN Wide(0)
    ELSE Add(Scale(DecimalValue(SubSeq(ds, 1, Len(ds) - 1)), 10),
             Wide(DigitValue(ds[Len(ds)])))

\* 1 << 63 at width WideLimbs
WideMinInt64Magnitude == [i \in 1..WideLimbs |-> IF i = Int64Limbs THEN LimbBase \div 2 ELSE 0]

\* strconv.Atoi: an optional sign and decimal digits; a value outside int64
\* is a range error, returned with the nearest int64.
Atoi(s) ==
    LET signed == s # <<>> /\ s[1] \in {"+", "-"}
        ds == IF signed THEN Tail(s) ELSE s
        negative == signed /\ s[1] = "-"
        magnitude == DecimalValue(ds)
    IN
    IF ds = <<>> \/ \E i \in 1..Len(ds) : ~IsDigit(ds[i])
    THEN [ok |-> FALSE, value |-> I64(0)]
    ELSE IF negative
    THEN IF Less(WideMinInt64Magnitude, magnitude)
         THEN [ok |-> FALSE, value |-> Truncate(WideMinInt64Magnitude)]
         ELSE [ok |-> TRUE, value |-> Neg(Truncate(magnitude))]
    ELSE IF ~Less(magnitude, WideMinInt64Magnitude)
         THEN [ok |-> FALSE, value |-> Sub(Truncate(WideMinInt64Magnitude), I64(1))]
         ELSE [ok |-> TRUE, value |-> Truncate(magnitude)]

Absent == Neg(I64(1))

parseRetryAfter(s) ==
    IF s = <<>> THEN Absent
    ELSE LET secs == Atoi(s) IN
         IF ~secs.ok THEN Absent
         ELSE IF IsNeg(secs.value) THEN Absent
         ELSE Mul(secs.value, Second)

(***************************************************************************)
(* Wire types of the two adapters: the role-message protocol (openai.go)   *)
(* and the block protocol (anthropic.go).                                  *)
(***************************************************************************)
openAIFunctionCall(name, arguments) == [Name |-> name, Arguments |-> arguments]
openAIToolCall(id, function) == [ID |-> id, Type |-> "function", Function |-> function]
openAIMessage(role, content, toolCalls, toolCallID) ==
    [Role |-> role, Content |-> content, ToolCalls |-> toolCalls, ToolCallID |-> toolCallID]
openAIUsage(promptTokens, completionTokens) ==
    [PromptTokens |-> promptTokens, CompletionTokens |-> completionTokens]
openAIChoice(message) == [Message |-> message]
openAIResponse(choices, usage) == [Choices |-> choices, Usage |-> usage]

anthropicMessage(role, content) == [Role |-> role, Content |-> content]
anthropicContentBlock(type, text, id, name, input) ==
    [Type |-> type, Text |-> text, ID |-> id, Name |-> name, Input |-> input]
anthropicUsage(inputTokens, outputTokens) ==
    [InputTokens |-> inputTokens, OutputTokens |-> outputTokens]
anthropicResponse(content, usage) == [Content |-> content, Usage |-> usage]

\* A response body: either text json.Unmarshal rejects, or the JSON of value.
Body(value) == [json |-> TRUE, value |-> value]
NotJSON == [json |-> FALSE, value |-> openAIResponse(<<>>, openAIUsage(0, 0))]

MessageResponse(text, toolCalls, usage) ==
    [err |-> FALSE, Text |-> text, ToolCalls |-> toolCalls, Usage |-> usage]

\* OpenAIClient.parseResponse: the first choice only; ok is false for "no
\* choices in response".
OpenAIParseCall(tc) == ToolCall(tc.ID, tc.Function.Name, tc.Function.Arguments)
OpenAIParseResponseSwapped(resp) ==
    IF Len(resp.Choices) = 0 THEN [ok |-> FALSE, response |-> NoResponse]
    ELSE LET msg == resp.Choices[1].Message IN
         [ok |-> TRUE,
          response |-> MessageResponse(msg.Content,
                          [i \in 1..Len(msg.ToolCalls) |-> OpenAIParseCall(msg.ToolCalls[i])],
                          Usage(resp.Usage.CompletionTokens, resp.Usage.PromptTokens))]
OpenAIParseResponse(resp) ==
    IF Len(resp.Choices) = 0 THEN [ok |-> FALSE, response |-> NoResponse]
    ELSE LET msg == resp.Choices[1].Message IN
         [ok |-> TRUE,
          response |-> MessageResponse(msg.Content,
                          [i \in 1..Len(msg.ToolCalls) |-> OpenAIParseCall(msg.ToolCalls[i])],
                          Usage(resp.Usage.PromptTokens, resp.Usage.CompletionTokens))]

\* AnthropicClient.parseResponse: text blocks are concatenated, tool_use
\* blocks become tool calls, other blocks are skipped.
RECURSIVE AnthropicText(_)
AnthropicText(blocks) ==
    IF blocks = <<>> THEN <<>>
    ELSE (IF Head(blocks).Type = "text" THEN Head(blocks).Text ELSE <<>>)
         \o AnthropicText(Tail(blocks))

RECURSIVE AnthropicCalls(_)
AnthropicCalls(blocks) ==
    IF blocks = <<>> THEN <<>>
    ELSE (IF Head(blocks).Type = "tool_use"
          THEN <<ToolCall(Head(blocks).ID, Head(blocks).Name, Head(blocks).Input)>>
          ELSE <<>>)
         \o AnthropicCalls(Tail(blocks))

AnthropicParseResponse(resp) ==
    MessageResponse(AnthropicText(resp.Content), AnthropicCalls(resp.Content),
                    Usage(resp.Usage.InputTokens, resp.Usage.OutputTokens))

(***************************************************************************)
(* OpenAIClient.SendMessage and doWithRetry.                               *)
(*   pc = "send"      the HTTP request of this attempt is outstanding      *)
(*   pc = "wait"      the retry timer is pending                           *)
(*   pc = "returned"  SendMessage has returned result                      *)
(* Requests take no time in the model, so elapsed (the sum of the waits)   *)
(* is the least time since SendMessage began; requests, waits, all429,     *)
(* doubled, cancelled and elapsed are history.                             *)
(***************************************************************************)
maxRetries == 8
StatusOK == 200
StatusTooManyRequests == 429
StatusInternalServerError == 500

\* NewOpenAI: Timeout 120 s and InitialBackoff unset; the tests set
\* InitialBackoff to 1 ms, and the field admits every duration.
NewOpenAI(initialBackoff) ==
    [adapter |-> "openai", Timeout |-> Seconds(120), InitialBackoff |-> initialBackoff]
Clients == {NewOpenAI(I64(0)), NewOpenAI(Millisecond), NewOpenAI(Nanosecond)}

NewAnthropic == [adapter |-> "anthropic", Timeout |-> Seconds(120)]

RetryAfterHeaders ==
    { <<>>, <<"0">>, <<"1">>,
      <<"9", "2", "2", "3", "3", "7", "2", "0", "3", "7">> }

NetworkError == [err |-> TRUE, StatusCode |-> 0, RetryAfter |-> <<>>, body |-> NotJSON]
HTTPResponse(status, retryAfter, body) ==
    [err |-> FALSE, StatusCode |-> status, RetryAfter |-> retryAfter, body |-> body]

WireCallA == openAIToolCall("call-1", openAIFunctionCall("execute-starlark", <<"{}">>))
WireCallB == openAIToolCall("call-2", openAIFunctionCall("execute-starlark", <<"x">>))

\* Bodies of the role-message protocol.
OpenAIBodies ==
    { Body(openAIResponse(
          <<openAIChoice(openAIMessage("assistant", <<"hi">>, <<WireCallB, WireCallA>>, ""))>>,
          openAIUsage(10, 5))),
      Body(openAIResponse(<<>>, openAIUsage(3, 0))),
      NotJSON }
ErrorBody == Body(openAIResponse(<<>>, openAIUsage(0, 0)))

\* What the server (or the network) answers to one request.
HTTPOutcomes ==
    {NetworkError}
    \cup {HTTPResponse(StatusOK, <<>>, b) : b \in OpenAIBodies}
    \cup {HTTPResponse(StatusInternalServerError, <<>>, ErrorBody)}
    \cup {HTTPResponse(StatusTooManyRequests, h, ErrorBody) : h \in RetryAfterHeaders}

\* Bodies of the block protocol.
AnthropicBodies ==
    { Body(anthropicResponse(
          << anthropicContentBlock("text", <<"hi">>, "", "", <<>>),
             anthropicContentBlock("tool_use", <<>>, "call-1", "execute-starlark", <<"{}">>),
             anthropicContentBlock("text", <<"there">>, "", "", <<>>) >>,
          anthropicUsage(10, 5))),
      Body(anthropicResponse(<<>>, anthropicUsage(3, 0))),
      NotJSON }

AnthropicHTTPOutcomes ==
    {NetworkError}
    \cup {HTTPResponse(StatusOK, <<>>, b) : b \in AnthropicBodies}
    \cup {HTTPResponse(StatusInternalServerError, <<>>, ErrorBody)}
    \cup {HTTPResponse(StatusTooManyRequests, h, ErrorBody) : h \in {<<>>, <<"0">>}}

initialBackoff(client) ==
    IF IsNeg(client.InitialBackoff) \/ IsZero(client.InitialBackoff)
    THEN Seconds(2)
    ELSE client.InitialBackoff

callError(kind, status) == [kind |-> kind, status |-> status, response |-> NoResponse]

SendMessageStart(client) ==
    [pc |-> "send", client |-> client, attempt |-> 0,
     backoff |-> initialBackoff(client), delay |-> I64(0),
     result |-> callError("none", 0),
     last |-> NetworkError,
     requests |-> 0, waits |-> 0, all429 |-> TRUE, doubled |-> 0,
     cancelled |-> FALSE, elapsed |-> I64(0)]

\* SendMessage after doWithRetry has returned a response.
sendMessageResult(resp) ==
    IF resp.StatusCode # StatusOK THEN callError("api error", resp.StatusCode)
    ELSE IF ~resp.body.json THEN callError("unmarshal error", resp.StatusCode)
    ELSE LET parsed == OpenAIParseResponse(resp.body.value) IN
         IF ~parsed.ok THEN callError("parse error", resp.StatusCode)
         ELSE [kind |-> "response", status |-> resp.StatusCode, response |-> parsed.response]

returned(h, result) == [h EXCEPT !.pc = "returned", !.result = result]

\* rand.Int64N(n) draws from [0, n) and panics when n <= 0; the model draws
\* the least and the greatest value.
Int64NDraws(n) == {I64(0), Sub(n, I64(1))}

lastAttempt(h) == h.attempt = maxRetries - 1

\* The statuses the loop retries.
retriedAnyFailure(resp) == resp.StatusCode # StatusOK
retried(resp) == resp.StatusCode = StatusTooManyRequests

\* Whether this iteration reaches rand.Int64N with a bound it accepts.
drawsJitter(h, resp) ==
    /\ ~resp.err /\ retried(resp) /\ ~lastAttempt(h)
    /\ IsNeg(parseRetryAfter(resp.RetryAfter))
    /\ ~IsNeg(Half(h.backoff)) /\ ~IsZero(Half(h.backoff))

\* doRequest returns (one iteration of the retry loop, up to the timer).
doWithRetryResponse(h, resp, draw) ==
    LET g == [h EXCEPT !.requests = @ + 1, !.last = resp,
                       !.all429 = @ /\ ~resp.err /\ resp.StatusCode = StatusTooManyRequests]
    IN
    IF resp.err THEN returned(g, callError("network error", 0))
    ELSE IF ~retried(resp) THEN returned(g, sendMessageResult(resp))
    ELSE IF lastAttempt(h) THEN returned(g, sendMessageResult(resp))
    ELSE LET parsed == parseRetryAfter(resp.RetryAfter) IN
         IF IsNeg(parsed)
         THEN LET bound == Half(h.backoff) IN
              IF IsNeg(bound) \/ IsZero(bound)
              THEN returned(g, callError("panic", 0))
              ELSE LET delay == Add(h.backoff, draw) IN
                   [g EXCEPT !.delay = delay,
                             !.backoff = Add(@, @),
                             !.doubled = @ + 1,
                             !.pc = IF IsZero(delay) THEN "send" ELSE "wait",
                             !.attempt = IF IsZero(delay) THEN @ + 1 ELSE @]
         ELSE [g EXCEPT !.delay = parsed,
                        !.pc = IF IsZero(parsed) THEN "send" ELSE "wait",
                        !.attempt = IF IsZero(parsed) THEN @ + 1 ELSE @]

\* The instant the pending timer fires, counted from the start of the call.
timerInstant(h) == IF IsNeg(h.delay) THEN h.elapsed ELSE Add(h.elapsed, h.delay)
hasDeadline(h) == ~IsNeg(h.client.Timeout) /\ ~IsZero(h.client.Timeout)
timerBeforeDeadline(h) == ~hasDeadline(h) \/ ~Less(h.client.Timeout, timerInstant(h))
deadlineBeforeTimer(h) == hasDeadline(h) /\ ~Less(timerInstant(h), h.client.Timeout)

\* case <-timer.C
doWithRetryTimer(h) ==
    [h EXCEPT !.pc = "send", !.attempt = @ + 1, !.waits = @ + 1,
              !.elapsed = timerInstant(h)]

\* case <-ctx.Done(): return nil, nil, ctx.Err()
doWithRetryCtxDoneSleepsOn(h, ctxErr) == doWithRetryTimer(h)
doWithRetryCtxDone(h, ctxErr) == returned(h, callError(ctxErr, 0))

\* AnthropicClient.SendMessage: one request, whose outcome is returned.
AnthropicSendMessageStart(client) ==
    [pc |-> "send", client |-> client, attempt |-> 0,
     backoff |-> I64(0), delay |-> I64(0),
     result |-> callError("none", 0),
     last |-> NetworkError,
     requests |-> 0, waits |-> 0, all429 |-> TRUE, doubled |-> 0,
     cancelled |-> FALSE, elapsed |-> I64(0)]

AnthropicSendMessage(h, resp) ==
    LET g == [h EXCEPT !.requests = @ + 1, !.last = resp,
                       !.all429 = @ /\ ~resp.err /\ resp.StatusCode = StatusTooManyRequests]
    IN
    IF resp.err THEN returned(g, callError("network error", 0))
    ELSE IF resp.StatusCode # StatusOK THEN returned(g, callError("api error", resp.StatusCode))
    ELSE IF ~resp.body.json THEN returned(g, callError("unmarshal error", resp.StatusCode))
    ELSE returned(g, [kind |-> "response", status |-> resp.StatusCode,
                      response |-> AnthropicParseResponse(resp.body.value)])

\* NewOllama: an OpenAIClient with Timeout 300 s behind OllamaClient.
NewOllama == [adapter |-> "ollama", Timeout |-> Seconds(300), InitialBackoff |-> I64(0)]

\* Bodies of a server that omits tool-call ids.
OllamaCall(id, arguments) ==
    openAIToolCall(id, openAIFunctionCall("execute-starlark", arguments))
OllamaBodies ==
    OpenAIBodies
    \cup { Body(openAIResponse(
               <<openAIChoice(openAIMessage("assistant", <<>>, calls, ""))>>,
               openAIUsage(8, 4))) :
             calls \in { <<OllamaCall("", <<"{}">>)>>,
                         <<OllamaCall("", <<"{}">>), OllamaCall("", <<"x">>)>>,
                         <<OllamaCall("", <<"x">>), OllamaCall("call-2", <<"{}">>),
                           OllamaCall("", <<"{}">>)>>,
                         <<OllamaCall("ollama_call_1", <<"{}">>), OllamaCall("", <<"x">>)>> } }

OllamaHTTPOutcomes ==
    {NetworkError}
    \cup {HTTPResponse(StatusOK, <<>>, b) : b \in OllamaBodies}
    \cup {HTTPResponse(StatusInternalServerError, <<>>, ErrorBody)}
    \cup {HTTPResponse(StatusTooManyRequests, h, ErrorBody) : h \in {<<>>, <<"0">>}}

\* fmt.Sprintf("ollama_call_%d", i) for the Go index i = k - 1.
ollamaCallID(k) == "ollama_call_" \o ToString(k - 1)

\* OllamaClient.SendMessage after the embedded OpenAIClient.SendMessage has
\* returned result: an error is passed on, empty ids are filled in.
OllamaSendMessagePatchAll(result) ==
    IF result.kind # "response" THEN result
    ELSE [result EXCEPT !.response.ToolCalls =
            [k \in 1..Len(@) |-> [@[k] EXCEPT !.ID = ollamaCallID(k)]]]
OllamaSendMessage(result) ==
    IF result.kind # "response" THEN result
    ELSE [result EXCEPT !.response.ToolCalls =
            [k \in 1..Len(@) |->
                IF @[k].ID = "" THEN [@[k] EXCEPT !.ID = ollamaCallID(k)] ELSE @[k]]]

OllamaReturn(h) ==
    IF h.pc = "returned" THEN [h EXCEPT !.result = OllamaSendMessage(@)] ELSE h

InitRetry ==
    /\ \E client \in Clients : http = SendMessageStart(client)
    /\ trial = TrialIdle
    /\ run = RunIdle
    /\ wire = WireIdle
    /\ startup = StartupIdle

HttpResponse ==
    /\ http.pc = "send"
    /\ http.client.adapter = "openai"
    /\ \E resp \in HTTPOutcomes :
          IF drawsJitter(http, resp)
          THEN \E draw \in Int64NDraws(Half(http.backoff)) :
                  http' = doWithRetryResponse(http, resp, draw)
          ELSE http' = doWithRetryResponse(http, resp, I64(0))
    /\ UNCHANGED <<trial, run, wire, startup>>

HttpTimerFires ==
    /\ http.pc = "wait"
    /\ timerBeforeDeadline(http)
    /\ http' = doWithRetryTimer(http)
    /\ UNCHANGED <<trial, run, wire, startup>>

\* The deadline of context.WithTimeout(ctx, p.Timeout) passes during the wait.
HttpDeadline ==
    /\ http.pc = "wait"
    /\ deadlineBeforeTimer(http)
    /\ http' = doWithRetryCtxDone(http, "deadline exceeded")
    /\ UNCHANGED <<trial, run, wire, startup>>

\* The caller cancels its context during the wait.
HttpCallerCancels ==
    /\ http.pc = "wait"
    /\ http' = doWithRetryCtxDone([http EXCEPT !.cancelled = TRUE], "canceled")
    /\ UNCHANGED <<trial, run, wire, startup>>

NextRetry == HttpResponse \/ HttpTimerFires \/ HttpDeadline \/ HttpCallerCancels

SpecRetry == InitRetry /\ [][NextRetry]_vars

(***************************************************************************)
(* Both adapters behind the Client interface.                              *)
(***************************************************************************)
InitClients ==
    /\ \/ \E client \in Clients : http = SendMessageStart(client)
       \/ http = SendMessageStart(NewOllama)
       \/ http = AnthropicSendMessageStart(NewAnthropic)
    /\ trial = TrialIdle
    /\ run = RunIdle
    /\ wire = WireIdle
    /\ startup = StartupIdle

HttpAnthropicResponse ==
    /\ http.pc = "send"
    /\ http.client.adapter = "anthropic"
    /\ \E resp \in AnthropicHTTPOutcomes : http' = AnthropicSendMessage(http, resp)
    /\ UNCHANGED <<trial, run, wire, startup>>

\* A request of the OpenAIClient embedded in OllamaClient is answered.
HttpOllamaResponse ==
    /\ http.pc = "send"
    /\ http.client.adapter = "ollama"
    /\ \E resp \in OllamaHTTPOutcomes :
          IF drawsJitter(http, resp)
          THEN \E draw \in Int64NDraws(Half(http.backoff)) :
                  http' = OllamaReturn(doWithRetryResponse(http, resp, draw))
          ELSE http' = OllamaReturn(doWithRetryResponse(http, resp, I64(0)))
    /\ UNCHANGED <<trial, run, wire, startup>>

NextClients == NextRetry \/ HttpAnthropicResponse \/ HttpOllamaResponse

SpecClients == InitClients /\ [][NextClients]_vars

(***************************************************************************)
(* The translation of one internal message to the wire, by each adapter.   *)
(* The empty string is the empty text <<>>; a nil *ToolResult is           *)
(* NoToolResult.                                                           *)
(***************************************************************************)
hasToolResult(m) == m.ToolResult # NoToolResult

\* toOpenAIMessages: zero, one, two or three messages of the role protocol.
toOpenAICalls(toolCalls) ==
    [i \in 1..Len(toolCalls) |->
        openAIToolCall(toolCalls[i].ID,
                       openAIFunctionCall(toolCalls[i].Name, toolCalls[i].Input))]

toOpenAIMessagesNudgeFirst(m) ==
    (IF m.Text # <<>> /\ hasToolResult(m)
     THEN <<openAIMessage("user", m.Text, <<>>, "")>>
     ELSE <<>>)
    \o (IF hasToolResult(m)
        THEN <<openAIMessage("tool", m.ToolResult.Content, <<>>, m.ToolResult.ToolCallID)>>
        ELSE <<>>)
    \o (IF Len(m.ToolCalls) > 0
        THEN <<openAIMessage("assistant", m.Text, toOpenAICalls(m.ToolCalls), "")>>
        ELSE IF m.Text # <<>> /\ ~hasToolResult(m)
        THEN <<openAIMessage(m.Role, m.Text, <<>>, "")>>
        ELSE <<>>)

toOpenAIMessages(m) ==
    (IF hasToolResult(m)
     THEN <<openAIMessage("tool", m.ToolResult.Content, <<>>, m.ToolResult.ToolCallID)>>
     ELSE <<>>)
    \o (IF Len(m.ToolCalls) > 0
        THEN <<openAIMessage("assistant", m.Text, toOpenAICalls(m.ToolCalls), "")>>
        ELSE IF m.Text # <<>> /\ ~hasToolResult(m)
        THEN <<openAIMessage(m.Role, m.Text, <<>>, "")>>
        ELSE <<>>)
    \o (IF m.Text # <<>> /\ hasToolResult(m)
        THEN <<openAIMessage("user", m.Text, <<>>, "")>>
        ELSE <<>>)

\* toOpenAIMessages of OpenAIProvider (internal/llm/openai.go): the assistant
\* message of the tool-call branch is built from Role and ToolCalls alone,
\* so its Content is the zero value.
toOpenAIMessagesOfProvider(m) ==
    (IF hasToolResult(m)
     THEN <<openAIMessage("tool", m.ToolResult.Content, <<>>, m.ToolResult.ToolCallID)>>
     ELSE <<>>)
    \o (IF Len(m.ToolCalls) > 0
        THEN <<openAIMessage("assistant", <<>>, toOpenAICalls(m.ToolCalls), "")>>
        ELSE IF m.Text # <<>> /\ ~hasToolResult(m)
        THEN <<openAIMessage(m.Role, m.Text, <<>>, "")>>
        ELSE <<>>)
    \o (IF m.Text # <<>> /\ hasToolResult(m)
        THEN <<openAIMessage("user", m.Text, <<>>, "")>>
        ELSE <<>>)

\* json.Unmarshal(tc.Input, &input) with its error dropped: the object, or
\* the nil map (null on the wire) for a payload that is not an object.
unmarshalInput(raw) == IF raw = <<"{}">> THEN "{}" ELSE "null"

\* toAnthropicMessage: one message whose blocks are map[string]any values.
toolResultBlock(tr) ==
    IF tr.IsError
    THEN [type |-> "tool_result", tool_use_id |-> tr.ToolCallID, content |-> tr.Content,
          is_error |-> TRUE]
    ELSE [type |-> "tool_result", tool_use_id |-> tr.ToolCallID, content |-> tr.Content]
textBlock(text) == [type |-> "text", text |-> text]
toolUseBlock(tc) ==
    [type |-> "tool_use", id |-> tc.ID, name |-> tc.Name, input |-> unmarshalInput(tc.Input)]

toAnthropicMessage(m) ==
    anthropicMessage(m.Role,
        (IF hasToolResult(m) THEN <<toolResultBlock(m.ToolResult)>> ELSE <<>>)
        \o (IF m.Text # <<>> THEN <<textBlock(m.Text)>> ELSE <<>>)
        \o [i \in 1..Len(m.ToolCalls) |-> toolUseBlock(m.ToolCalls[i])])

\* The internal messages translated.
WireMessages ==
    { Message(role, text, toolCalls, toolResult) :
        role \in {RoleUser, RoleAssistant},
        text \in {<<>>, <<"hi">>, TryAgainNudge},
        toolCalls \in {<<>>, <<CallA>>, <<CallB, CallA>>},
        toolResult \in {NoToolResult,
                        ToolResult("call-1", <<"no", "\n">>, FALSE),
                        ToolResult("call-1", <<"boom">>, TRUE),
                        ToolResult("call-1", <<>>, FALSE)} }

NotTranslated == [done |-> FALSE]

InitWire ==
    /\ \E m \in WireMessages :
          wire = [pc |-> "translate", m |-> m,
                  openai |-> NotTranslated, provider |-> NotTranslated,
                  anthropic |-> NotTranslated]
    /\ trial = TrialIdle
    /\ run = RunIdle
    /\ http = HttpIdle
    /\ startup = StartupIdle

\* OpenAIClient.buildRequest translates the message.
WireToOpenAI ==
    /\ wire.pc = "translate"
    /\ ~wire.openai.done
    /\ wire' = [wire EXCEPT !.openai = [done |-> TRUE, messages |-> toOpenAIMessages(wire.m)]]
    /\ UNCHANGED <<trial, run, http, startup>>

\* OpenAIProvider.buildRequest translates the message.
WireToOpenAIProvider ==
    /\ wire.pc = "translate"
    /\ ~wire.provider.done
    /\ wire' = [wire EXCEPT !.provider =
                   [done |-> TRUE, messages |-> toOpenAIMessagesOfProvider(wire.m)]]
    /\ UNCHANGED <<trial, run, http, startup>>

\* AnthropicClient.buildRequest translates the message.
WireToAnthropic ==
    /\ wire.pc = "translate"
    /\ ~wire.anthropic.done
    /\ wire' = [wire EXCEPT !.anthropic = [done |-> TRUE, message |-> toAnthropicMessage(wire.m)]]
    /\ UNCHANGED <<trial, run, http, startup>>

NextWire == WireToOpenAI \/ WireToOpenAIProvider \/ WireToAnthropic

SpecWire == InitWire /\ [][NextWire]_vars

(***************************************************************************)
(* Specification of one trial: runEval under every configuration the flags *)
(* admit (-max-attempts >= 1, -max-iters >= 1) up to the bounds.           *)
(***************************************************************************)
InitTrial ==
    /\ \E a \in 1..MaxAttemptsFlag, i \in 1..MaxItersFlag :
          trial = runEvalStart(TheCase, evalConfig(a, i))
    /\ run = RunIdle
    /\ http = HttpIdle
    /\ wire = WireIdle
    /\ startup = StartupIdle

TrialLoopHead ==
    /\ trial.pc = "loop"
    /\ trial' = runEvalLoopHead(trial)
    /\ UNCHANGED <<run, http, wire, startup>>

TrialLLMReturn ==
    /\ trial.pc = "llm"
    /\ \E resp \in LLMResponses : trial' = runEvalLLMReturn(trial, resp)
    /\ UNCHANGED <<run, http, wire, startup>>

TrialToolReturn ==
    /\ trial.pc = "tool"
    /\ \E s \in SessionOutcomes :
          trial' = runEvalToolReturn(trial, callMCPTool(trial.toolCall, s))
    /\ UNCHANGED <<run, http, wire, startup>>

NextTrial == TrialLoopHead \/ TrialLLMReturn \/ TrialToolReturn

SpecTrial == InitTrial /\ [][NextTrial]_vars

\* Every call the trial makes returns.
SpecTrialFair == SpecTrial /\ WF_vars(NextTrial)

(***************************************************************************)
(* Case selection (evals/filter.go) and the start of main.  A string is    *)
(* the sequence of its characters.  Two revisions of parseTierSpec are in  *)
(* the sources: the one of evals/filter.go, built on strings.Index and     *)
(* strconv.Atoi, and the later one built on two regular expressions.       *)
(***************************************************************************)
\* strings.Index(s, c) + 1 for a one-character c: 0 when c is not in s.
Index(s, c) ==
    IF \E i \in 1..Len(s) : s[i] = c
    THEN CHOOSE i \in 1..Len(s) : s[i] = c /\ \A j \in 1..(i - 1) : s[j] # c
    ELSE 0

\* path.Match for names without '/': '*' is any run of characters, '?' any
\* one character, "[...]" one character of the listed ones, '\' quotes the
\* next character; an unclosed or empty class and a trailing '\' are
\* ErrBadPattern, reported whether or not the name matches.
RECURSIVE WellFormed(_)
WellFormed(pattern) ==
    IF pattern = <<>> THEN TRUE
    ELSE IF Head(pattern) = "["
    THEN LET j == Index(pattern, "]") IN
         j > 2 /\ WellFormed(SubSeq(pattern, j + 1, Len(pattern)))
    ELSE IF Head(pattern) = "\\"
    THEN Len(pattern) > 1 /\ WellFormed(SubSeq(pattern, 3, Len(pattern)))
    ELSE WellFormed(Tail(pattern))

RECURSIVE Matches(_, _)
Matches(pattern, name) ==
    IF pattern = <<>> THEN name = <<>>
    ELSE IF Head(pattern) = "*"
    THEN \E k \in 0..Len(name) : Matches(Tail(pattern), SubSeq(name, k + 1, Len(name)))
    ELSE IF name = <<>> THEN FALSE
    ELSE IF Head(pattern) = "?" THEN Matches(Tail(pattern), Tail(name))
    ELSE IF Head(pattern) = "["
    THEN LET j == Index(pattern, "]") IN
         /\ Head(name) \in {pattern[i] : i \in 2..(j - 1)}
         /\ Matches(SubSeq(pattern, j + 1, Len(pattern)), Tail(name))
    ELSE IF Head(pattern) = "\\"
    THEN Head(name) = pattern[2] /\ Matches(SubSeq(pattern, 3, Len(pattern)), Tail(name))
    ELSE Head(name) = Head(pattern) /\ Matches(Tail(pattern), Tail(name))

Match(pattern, name) ==
    IF WellFormed(pattern)
    THEN [matched |-> Matches(pattern, name), err |-> FALSE]
    ELSE [matched |-> FALSE, err |-> TRUE]

tierRange(min, max) == [err |-> FALSE, min |-> min, max |-> max]
tierError == [err |-> TRUE, min |-> I64(0), max |-> I64(0)]

\* parseTierSpec of evals/filter.go.
parseTierSpec(s) ==
    IF s = <<>> THEN tierRange(I64(0), I64(0))
    ELSE LET i == Index(s, "-") IN
         IF i > 0
         THEN LET min == Atoi(SubSeq(s, 1, i - 1))
                  max == Atoi(SubSeq(s, i + 1, Len(s)))
              IN IF ~min.ok THEN tierError
                 ELSE IF ~max.ok THEN tierError
                 ELSE IF Less(max.value, min.value) THEN tierError
                 ELSE tierRange(min.value, max.value)
         ELSE LET n == Atoi(s) IN
              IF ~n.ok THEN tierError ELSE tierRange(n.value, n.value)

\* tierSingleRe = ^\d+$ and tierRangeRe = ^(\d+)-(\d+)$
AllDigits(s) == s # <<>> /\ \A i \in 1..Len(s) : IsDigit(s[i])
tierSingleRe(s) == AllDigits(s)
tierRangeRe(s) ==
    LET i == Index(s, "-") IN
    i > 0 /\ AllDigits(SubSeq(s, 1, i - 1)) /\ AllDigits(SubSeq(s, i + 1, Len(s)))

\* parseTierSpec of the later revision; the errors of Atoi are dropped.
parseTierSpecRegexp(s) ==
    IF s = <<>> THEN tierRange(I64(0), I64(0))
    ELSE IF tierSingleRe(s)
    THEN LET n == Atoi(s).value IN
         IF Less(n, I64(1)) THEN tierError ELSE tierRange(n, n)
    ELSE IF tierRangeRe(s)
    THEN LET i == Index(s, "-")
             min == Atoi(SubSeq(s, 1, i - 1)).value
             max == Atoi(SubSeq(s, i + 1, Len(s))).value
         IN IF Less(min, I64(1)) \/ Less(max, I64(1)) THEN tierError
            ELSE IF Less(max, min) THEN tierError
            ELSE tierRange(min, max)
    ELSE tierError

Revisions == {"evals/filter.go", "regexp"}
parseTierSpecOf(revision, s) ==
    IF revision = "regexp" THEN parseTierSpecRegexp(s) ELSE parseTierSpec(s)

filtered(out) == [err |-> FALSE, out |-> out]
filterError == [err |-> TRUE, out |-> <<>>]

\* The loop of filterCases over the cases still to visit.
RECURSIVE filterCasesLoop(_, _, _, _)
filterCasesLoop(all, pattern, minTier, maxTier) ==
    IF all = <<>> THEN filtered(<<>>)
    ELSE LET ec == Head(all)
             rest == filterCasesLoop(Tail(all), pattern, minTier, maxTier)
             kept == IF rest.err THEN rest ELSE filtered(<<ec>> \o rest.out)
         IN
         IF /\ Less(I64(0), minTier)
            /\ (Less(I64(ec.tier), minTier) \/ Less(maxTier, I64(ec.tier)))
         THEN rest
         ELSE IF pattern # <<>>
         THEN LET m == Match(pattern, ec.name) IN
              IF m.err THEN filterError
              ELSE IF ~m.matched THEN rest
              ELSE kept
         ELSE kept

filterCases(revision, all, pattern, tierSpec) ==
    LET parsed == parseTierSpecOf(revision, tierSpec) IN
    IF parsed.err THEN filterError
    ELSE filterCasesLoop(all, pattern, parsed.min, parsed.max)

\* The inputs of the selection.
CaseLists ==
    { <<>>,
      cases,
      << evalCase(<<"a", "b">>, 1, <<>>, <<>>), evalCase(<<"b">>, 2, <<>>, <<>>),
         evalCase(<<"a">>, 3, <<>>, <<>>), evalCase(<<"b", "a">>, 2, <<>>, <<>>),
         evalCase(<<"a", "b">>, 3, <<>>, <<>>) >> }

Patterns ==
    { <<>>, <<"*">>, <<"a", "*">>, <<"*", "a">>, <<"?">>, <<"a", "b">>, <<"h", "*">>,
      <<"[", "a", "b", "]", "?">>, <<"\\", "a">>, <<"*", "e", "*">>,
      <<"[">>, <<"a", "[">>, <<"z", "[", "]">>, <<"a", "\\">> }

TierSpecs ==
    { <<>>, <<"1">>, <<"2">>, <<"3">>, <<"0", "2">>, <<"9">>,
      <<"1", "-", "2">>, <<"2", "-", "3">>, <<"1", "-", "3">>, <<"2", "-", "2">>,
      <<"0">>, <<"0", "0">>, <<"0", "-", "2">>, <<"0", "-", "0">>,
      <<"4", "-", "1">>, <<"a", "b", "c">>, <<"1", "-", "a", "b", "c">>,
      <<"-", "1">>, <<"1", "-", "-", "3">>, <<"+", "1">>, <<"1", "-">>,
      <<"1", "-", "+", "3">>, <<"1", " ">> }

NotDone == [done |-> FALSE]

InitFilter ==
    /\ \E revision \in Revisions, all \in CaseLists, pattern \in Patterns,
          tierSpec \in TierSpecs :
          startup = [pc |-> "filter", revision |-> revision, all |-> all,
                     pattern |-> pattern, tierSpec |-> tierSpec,
                     parsed |-> NotDone, result |-> NotDone]
    /\ trial = TrialIdle
    /\ run = RunIdle
    /\ http = HttpIdle
    /\ wire = WireIdle

\* parseTierSpec(tierSpec) is called.
FilterParseTierSpec ==
    /\ startup.pc = "filter"
    /\ ~startup.parsed.done
    /\ startup' = [startup EXCEPT !.parsed =
                      [done |-> TRUE,
                       value |-> parseTierSpecOf(startup.revision, startup.tierSpec)]]
    /\ UNCHANGED <<trial, run, http, wire>>

\* filterCases(all, pattern, tierSpec) is called.
FilterCases ==
    /\ startup.pc = "filter"
    /\ ~startup.result.done
    /\ startup' = [startup EXCEPT !.result =
                      [done |-> TRUE,
                       value |-> filterCases(startup.revision, startup.all,
                                             startup.pattern, startup.tierSpec)]]
    /\ UNCHANGED <<trial, run, http, wire>>

NextFilter == FilterParseTierSpec \/ FilterCases

SpecFilter == InitFilter /\ [][NextFilter]_vars

(***************************************************************************)
(* main from flag.Parse to the start of the goroutines.  The value of -llm *)
(* is the sequence of its parts, the colon being a part of its own.        *)
(***************************************************************************)
\* llm.ParseModel: the text before the first colon is the provider.
ParseModel(s) ==
    LET i == Index(s, ":") IN
    IF i = 0 THEN [err |-> TRUE, provider |-> <<>>, model |-> <<>>]
    ELSE [err |-> FALSE, provider |-> SubSeq(s, 1, i - 1),
          model |-> SubSeq(s, i + 1, Len(s))]

\* The cases of the switch on providerName.
Providers == {<<"anthropic">>, <<"openai">>, <<"ollama">>}

\* os.Exit(status) before any goroutine is started, or the units to start.
exit(status) ==
    [exit |-> status, selected |-> <<>>, numRuns |-> 0, cfg |-> evalConfig(0, 0)]
start(sel, n, cfg) == [exit |-> 0, selected |-> sel, numRuns |-> n, cfg |-> cfg]

\* main up to signal.NotifyContext; flag.Parse exits with 2 on a value it
\* cannot parse.
main(f, revision) ==
    IF f.unparsable THEN exit(2)
    ELSE IF f.maxAttempts < 1 THEN exit(1)
    ELSE IF f.maxIters < 1 THEN exit(1)
    ELSE LET pm == ParseModel(f.llm) IN
         IF pm.err THEN exit(1)
         ELSE IF pm.provider \notin Providers THEN exit(1)
         ELSE LET sel == filterCases(revision, cases, f.filter, f.tier) IN
              IF sel.err THEN exit(1)
              ELSE IF Len(sel.out) = 0 THEN exit(1)
              ELSE start(sel.out, IF f.runs < 1 THEN 1 ELSE f.runs,
                         evalConfig(f.maxAttempts, f.maxIters))

\* main from signal.NotifyContext on: the goroutines of sel x 1..n.
mainStartOf(sel, n, cfg) ==
    LET units == (1..Len(sel)) \X (1..n) IN
    [phase |-> "running", cancelled |-> FALSE, sem |-> 0, wg |-> Cardinality(units),
     units |-> [u \in units |-> goroutine(sel[u[1]], cfg, u[1], u[2])],
     allResults |-> [u \in units |-> NoResult],
     writes |-> [u \in units |-> <<>>],
     runsDone |-> [i \in 1..Len(sel) |-> 0],
     runsPassed |-> [i \in 1..Len(sel) |-> 0],
     summaryOf |-> <<>>]

\* The command lines of the model.
Flags ==
    [ runs : 0..numRuns,
      llm : { <<"anthropic", ":", "m">>, <<"openai", ":", "m">>, <<"ollama", ":", "m">>,
              <<"fireworks", ":", "m">>, <<"m">>, <<":", "m">> },
      filter : { <<>>, <<"h", "*">>, <<"[">>, <<"x">> },
      tier : { <<>>, <<"2">>, <<"0">>, <<"9">>, <<"2", "-", "1">> },
      maxAttempts : 0..1,
      maxIters : 0..1,
      unparsable : BOOLEAN ]

InitMain ==
    /\ \E revision \in Revisions, f \in Flags :
          startup = [pc |-> "flags", revision |-> revision, flags |-> f, status |-> 0]
    /\ run = RunIdle
    /\ trial = TrialIdle
    /\ http = HttpIdle
    /\ wire = WireIdle

\* main runs to os.Exit or to the start of the goroutines.
MainStartup ==
    /\ startup.pc = "flags"
    /\ LET m == main(startup.flags, startup.revision) IN
       IF m.exit # 0
       THEN /\ startup' = [startup EXCEPT !.pc = "exited", !.status = m.exit]
            /\ run' = run
       ELSE /\ startup' = [pc |-> "started"]
            /\ run' = mainStartOf(m.selected, m.numRuns, m.cfg)
    /\ UNCHANGED <<trial, http, wire>>

NextMain ==
    \/ MainStartup
    \/ /\ startup.pc = "started"
       /\ \E u \in Units :
             /\ run.phase = "running"
             /\ u \in DOMAIN run.units
             /\ \/ UnitAcquire(u) \/ UnitTrialStep(u) \/ UnitWrite(u)
                \/ UnitRelease(u) \/ UnitDone(u)
    \/ startup.pc = "started" /\ Interrupt
    \/ startup.pc = "started" /\ MainSummary

SpecMain == InitMain /\ [][NextMain]_vars

(***************************************************************************)
(* parseRetryAfter on its own: every header value over a small alphabet,   *)
(* up to MaxHeaderLen characters, and the two numerals on either side of   *)
(* the largest number of seconds a time.Duration holds.                    *)
(***************************************************************************)
MaxHeaderLen == 3

HeaderAlphabet == {"0", "3", "-", "a"}
RECURSIVE HeadersOfLen(_)
HeadersOfLen(n) ==
    IF n = 0 THEN {<<>>}
    ELSE {<<c>> \o h : c \in HeaderAlphabet, h \in HeadersOfLen(n - 1)}

HeaderValues ==
    UNION {HeadersOfLen(n) : n \in 0..MaxHeaderLen}
    \cup { <<"9", "2", "2", "3", "3", "7", "2", "0", "3", "6">>,
           <<"9", "2", "2", "3", "3", "7", "2", "0", "3", "7">> }

InitHeader ==
    /\ \E s \in HeaderValues : http = [pc |-> "header", s |-> s, parsed |-> NotDone]
    /\ trial = TrialIdle
    /\ run = RunIdle
    /\ wire = WireIdle
    /\ startup = StartupIdle

\* delay := parseRetryAfter(resp.Header.Get("Retry-After"))
HeaderParseRetryAfter ==
    /\ http.pc = "header"
    /\ ~http.parsed.done
    /\ http' = [http EXCEPT !.parsed = [done |-> TRUE, delay |-> parseRetryAfter(http.s)]]
    /\ UNCHANGED <<trial, run, wire, startup>>

NextHeader == HeaderParseRetryAfter

SpecHeader == InitHeader /\ [][NextHeader]_vars

(***************************************************************************)
(* The summary table: per-case rows, per-tier lines and the overall line.  *)
(***************************************************************************)
MaxRunsFlag == 2

\* float64 figures as rationals; the scores are dyadic, so their sums are exact.
RatAdd(a, b) == Rat(a.num * b.den + b.num * a.den, a.den * b.den)
RatDiv(a, n) == Rat(a.num, a.den * n)
RatEq(a, b) == a.num * b.den = b.num * a.den

\* Go compares strings byte by byte.
Letters ==
    << "a", "b", "c", "d", "e", "f", "g", "h", "i", "j", "k", "l", "m",
       "n", "o", "p", "q", "r", "s", "t", "u", "v", "w", "x", "y", "z" >>
Rank(c) == CHOOSE k \in 1..Len(Letters) : Letters[k] = c
RECURSIVE StringLess(_, _)
StringLess(a, b) ==
    IF b = <<>> THEN FALSE
    ELSE IF a = <<>> THEN TRUE
    ELSE IF Head(a) # Head(b) THEN Rank(Head(a)) < Rank(Head(b))
    ELSE StringLess(Tail(a), Tail(b))

\* sort.Slice(tierCases, func(a, b int) bool { return name[a] < name[b] })
RECURSIVE sortByName(_)
sortByName(crs) ==
    IF crs = <<>> THEN <<>>
    ELSE LET k == CHOOSE k \in 1..Len(crs) :
                     \A j \in 1..Len(crs) : ~StringLess(crs[j].ec.name, crs[k].ec.name)
         IN <<crs[k]>> \o sortByName(SubSeq(crs, 1, k - 1) \o SubSeq(crs, k + 1, Len(crs)))

\* for _, r := range cr.Runs { ... }
caseSumsStart ==
    [passed |-> 0, scoreSum |-> Rat(0, 1), attemptsSum |-> 0, tokensIn |-> 0, tokensOut |-> 0]
RECURSIVE caseSums(_, _, _)
caseSums(Runs, k, acc) ==
    IF k > Len(Runs) THEN acc
    ELSE caseSums(Runs, k + 1,
                  [passed |-> IF Runs[k].Passed THEN acc.passed + 1 ELSE acc.passed,
                   scoreSum |-> RatAdd(acc.scoreSum, Runs[k].Score),
                   attemptsSum |-> acc.attemptsSum + Runs[k].Attempts,
                   tokensIn |-> acc.tokensIn + Runs[k].TokensIn,
                   tokensOut |-> acc.tokensOut + Runs[k].TokensOut])

\* One row of the table.
caseRow(cr) ==
    LET s == caseSums(cr.Runs, 1, caseSumsStart)
        n == Len(cr.Runs)
    IN [name |-> cr.ec.name, tier |-> cr.ec.tier, passed |-> s.passed, n |-> n,
        passRate |-> Rat(s.passed * 100, n),
        avgScore |-> RatDiv(s.scoreSum, n),
        avgAttempts |-> Rat(s.attemptsSum, n),
        tokensIn |-> s.tokensIn, tokensOut |-> s.tokensOut,
        scoreSum |-> s.scoreSum]

\* for _, cr := range tierCases { ... ; tierPassed += passed; ... }
RECURSIVE tierSums(_, _, _)
tierSums(tierCases, k, acc) ==
    IF k > Len(tierCases) THEN acc
    ELSE LET row == caseRow(tierCases[k]) IN
         tierSums(tierCases, k + 1,
                  [acc EXCEPT !.rows = Append(@, row),
                              !.tierPassed = @ + row.passed,
                              !.tierRuns = @ + row.n,
                              !.tierScore = RatAdd(@, row.scoreSum),
                              !.totalTokensIn = @ + row.tokensIn,
                              !.totalTokensOut = @ + row.tokensOut])

\* The highest tier in use.
maxTierOfFirst(results) == Head(results).ec.tier
RECURSIVE maxTierOf(_)
maxTierOf(results) ==
    IF results = <<>> THEN 0
    ELSE LET m == maxTierOf(Tail(results)) IN
         IF Head(results).ec.tier > m THEN Head(results).ec.tier ELSE m

summaryStart ==
    [rows |-> <<>>, tiers |-> <<>>, totalPassed |-> 0, totalRuns |-> 0,
     totalScore |-> Rat(0, 1), totalTokensIn |-> 0, totalTokensOut |-> 0]

\* for tier := 1; tier <= maxTier; tier++ { ... }
RECURSIVE tierLoop(_, _, _, _)
tierLoop(results, tier, maxTier, acc) ==
    IF tier > maxTier THEN acc
    ELSE LET tierCases == SelectSeq(results, LAMBDA cr : cr.ec.tier = tier) IN
         IF Len(tierCases) = 0 THEN tierLoop(results, tier + 1, maxTier, acc)
         ELSE LET t == tierSums(sortByName(tierCases), 1,
                                [rows |-> acc.rows, tierPassed |-> 0, tierRuns |-> 0,
                                 tierScore |-> Rat(0, 1),
                                 totalTokensIn |-> acc.totalTokensIn,
                                 totalTokensOut |-> acc.totalTokensOut])
              IN tierLoop(results, tier + 1, maxTier,
                          [rows |-> t.rows,
                           tiers |-> Append(acc.tiers,
                                            [tier |-> tier,
                                             avgScore |-> RatDiv(t.tierScore, t.tierRuns),
                                             passed |-> t.tierPassed, runs |-> t.tierRuns,
                                             passRate |-> Rat(t.tierPassed * 100, t.tierRuns)]),
                           totalPassed |-> acc.totalPassed + t.tierPassed,
                           totalRuns |-> acc.totalRuns + t.tierRuns,
                           totalScore |-> RatAdd(acc.totalScore, t.tierScore),
                           totalTokensIn |-> t.totalTokensIn,
                           totalTokensOut |-> t.totalTokensOut])

printSummaryTable(results) ==
    LET acc == tierLoop(results, 1, maxTierOf(results), summaryStart) IN
    [rows |-> acc.rows, tiers |-> acc.tiers,
     overall |-> [avgScore |-> RatDiv(acc.totalScore, acc.totalRuns),
                  passed |-> acc.totalPassed, runs |-> acc.totalRuns,
                  passRate |-> Rat(acc.totalPassed * 100, acc.totalRuns),
                  tokensIn |-> acc.totalTokensIn, tokensOut |-> acc.totalTokensOut]]

\* What a finished trial can have recorded: a pass at the first or at the
\* second attempt, a failure after three attempts.
FinishedRuns(ec) ==
    { [written |-> TRUE, ec |-> ec, Passed |-> TRUE, Attempts |-> 1, Score |-> passScore(1),
       Outputs |-> <<ec.expected>>, TokensIn |-> 9, TokensOut |-> 4],
      [written |-> TRUE, ec |-> ec, Passed |-> TRUE, Attempts |-> 2, Score |-> passScore(2),
       Outputs |-> <<<<"x">>, ec.expected>>, TokensIn |-> 25, TokensOut |-> 8],
      [written |-> TRUE, ec |-> ec, Passed |-> FALSE, Attempts |-> 3, Score |-> Rat(0, 1),
       Outputs |-> <<<<"x">>, <<"x">>, <<"x">>>>, TokensIn |-> 27, TokensOut |-> 12] }

SummaryCaseLists ==
    { cases,
      << evalCase(<<"b">>, 3, <<>>, <<>>), evalCase(<<"a", "b">>, 1, <<>>, <<>>),
         evalCase(<<"a">>, 1, <<>>, <<>>) >> }

\* allResults after wg.Wait(): one caseResults per selected case, numRuns runs each.
AllResults(sel, n) ==
    { rs \in [1..Len(sel) -> UNION {[1..n -> FinishedRuns(sel[i])] : i \in 1..Len(sel)}] :
         \A i \in 1..Len(sel) : \A r \in 1..n : rs[i][r].ec = sel[i] }

InitSummary ==
    /\ \E sel \in SummaryCaseLists, n \in 1..MaxRunsFlag :
          \E rs \in AllResults(sel, n) :
             run = [phase |-> "printSummary", numRuns |-> n,
                    results |-> [i \in 1..Len(sel) |-> [ec |-> sel[i], Runs |-> rs[i]]],
                    table |-> NotDone]
    /\ trial = TrialIdle
    /\ http = HttpIdle
    /\ wire = WireIdle
    /\ startup = StartupIdle

PrintSummary ==
    /\ run.phase = "printSummary"
    /\ ~run.table.done
    /\ run' = [run EXCEPT !.table = [done |-> TRUE, value |-> printSummaryTable(run.results)]]
    /\ UNCHANGED <<trial, http, wire, startup>>

NextSummary == PrintSummary

SpecSummary == InitSummary /\ [][NextSummary]_vars

(***************************************************************************)
(* The execution tool: a Starlark program's prints go through an output    *)
(* buffer of bounded length.                                               *)
(***************************************************************************)
maxOutputLen == 16384
MaxPrints == 3

\* The messages a program prints, by length in bytes.
MessageLens == {0, 1, 8191, 8192, maxOutputLen - 1, maxOutputLen}
PrintPrograms == UNION {[1..n -> MessageLens] : n \in 0..MaxPrints}

RECURSIVE bufLen(_)
bufLen(buf) == IF buf = <<>> THEN 0 ELSE Head(buf) + bufLen(Tail(buf))

\* newOutputBuffer(maxOutputLen); thread with Print: buf.appendln
executeStarlarkStart(program) ==
    [pc |-> "running", program |-> program, next |-> 1, buf |-> <<>>,
     cancelReason |-> <<>>, output |-> <<>>, err |-> <<>>, dropped |-> 0]

\* thread.Cancel keeps the first reason.
threadCancel(e, reason) ==
    IF e.cancelReason = <<>> THEN [e EXCEPT !.cancelReason = reason] ELSE e

\* outputBuffer.appendln: the buffer holds the message and its newline as
\* one chunk of len(msg) + 1 bytes.
appendlnAtLimit(e, msg) ==
    LET newLen == bufLen(e.buf) + msg + 1 IN
    IF newLen > maxOutputLen + 1
    THEN threadCancel([e EXCEPT !.dropped = @ + 1],
                      <<"output length ", newLen, " bytes exceeded ", maxOutputLen, " bytes">>)
    ELSE [e EXCEPT !.buf = Append(@, msg + 1)]
appendln(e, msg) ==
    LET newLen == bufLen(e.buf) + msg + 1 IN
    IF newLen > maxOutputLen
    THEN threadCancel([e EXCEPT !.dropped = @ + 1],
                      <<"output length ", newLen, " bytes exceeded ", maxOutputLen, " bytes">>)
    ELSE [e EXCEPT !.buf = Append(@, msg + 1)]

\* ExecFileOptions returns: an error when the thread was cancelled,
\* otherwise buf.str().
executeStarlarkReturn(e) ==
    IF e.cancelReason # <<>>
    THEN [e EXCEPT !.pc = "error",
                   !.err = <<"failed to execute program: ", "Starlark computation cancelled: ">>
                           \o e.cancelReason]
    ELSE [e EXCEPT !.pc = "ok", !.output = e.buf]

InitExec ==
    /\ \E program \in PrintPrograms : wire = executeStarlarkStart(program)
    /\ trial = TrialIdle
    /\ run = RunIdle
    /\ http = HttpIdle
    /\ startup = StartupIdle

\* The program calls print. A built-in that is running when the thread is
\* cancelled may still call it before the interpreter sees the cancellation.
ExecPrint ==
    /\ wire.pc = "running"
    /\ wire.next <= Len(wire.program)
    /\ wire' = [appendln(wire, wire.program[wire.next]) EXCEPT !.next = @ + 1]
    /\ UNCHANGED <<trial, run, http, startup>>

\* The context's deadline passes: the AfterFunc cancels the thread.
ExecTimeout ==
    /\ wire.pc = "running"
    /\ wire.cancelReason = <<>>
    /\ wire' = threadCancel(wire, <<"context deadline exceeded">>)
    /\ UNCHANGED <<trial, run, http, startup>>

\* The interpreter sees the cancellation at its next instruction, or the
\* program runs to its end.
ExecReturn ==
    /\ wire.pc = "running"
    /\ wire.cancelReason # <<>> \/ wire.next > Len(wire.program)
    /\ wire' = executeStarlarkReturn(wire)
    /\ UNCHANGED <<trial, run, http, startup>>

NextExec == ExecPrint \/ ExecTimeout \/ ExecReturn

SpecExec == InitExec /\ [][NextExec]_vars

(***************************************************************************)
(* The board-validity judge.  An output is taken as its lines after        *)
(* TrimSpace and Split, each line as its whitespace-separated fields.      *)
(***************************************************************************)
MaxBoard == 3

\* for c, cell := range fields { ... }: the scan of line r from field c on.
\* The rows and columns count from 0 as in the code.
RECURSIVE scanFields(_, _, _, _)
scanFields(fields, r, c, acc) ==
    IF ~acc.ok \/ c >= Len(fields) THEN acc
    ELSE LET cell == fields[c + 1] IN
         IF cell = "Q"
         THEN IF c \in acc.cols \/ (r - c) \in acc.diag1 \/ (r + c) \in acc.diag2
              THEN [acc EXCEPT !.ok = FALSE, !.queens = @ + 1]
              ELSE scanFields(fields, r, c + 1,
                              [acc EXCEPT !.queens = @ + 1,
                                          !.cols = @ \cup {c},
                                          !.diag1 = @ \cup {r - c},
                                          !.diag2 = @ \cup {r + c}])
         ELSE IF cell # "."
         THEN [acc EXCEPT !.ok = FALSE]
         ELSE scanFields(fields, r, c + 1, acc)

\* for r, line := range lines { ... }
RECURSIVE scanLines(_, _, _, _)
scanLines(lines, n, r, acc) ==
    IF ~acc.ok \/ r >= Len(lines) THEN acc
    ELSE IF Len(lines[r + 1]) # n THEN [acc EXCEPT !.ok = FALSE]
    ELSE scanLines(lines, n, r + 1, scanFields(lines[r + 1], r, 0, acc))

validNQueens(n, lines) ==
    IF Len(lines) # n THEN FALSE
    ELSE LET acc == scanLines(lines, n, 0,
                              [ok |-> TRUE, queens |-> 0, cols |-> {}, diag1 |-> {}, diag2 |-> {}])
         IN acc.ok /\ acc.queens = n

\* Every board of queens and dots up to MaxBoard, and outputs that are no
\* board: a line short, a field short, a cell that is neither.
Boards(n) == [1..n -> [1..n -> {"Q", "."}]]
Outputs(n) ==
    Boards(n)
    \cup {SubSeq(b, 1, n - 1) : b \in Boards(n)}
    \cup {[b EXCEPT ![1] = Tail(@)] : b \in Boards(n)}
    \cup {[b EXCEPT ![n][n] = "q"] : b \in Boards(n)}

InitJudge ==
    /\ \E n \in 1..MaxBoard : \E output \in Outputs(n) :
          startup = [pc |-> "judge", n |-> n, output |-> output, verdict |-> NotDone]
    /\ trial = TrialIdle
    /\ run = RunIdle
    /\ http = HttpIdle
    /\ wire = WireIdle

JudgeBoard ==
    /\ startup.pc = "judge"
    /\ ~startup.verdict.done
    /\ startup' = [startup EXCEPT !.verdict =
                      [done |-> TRUE, value |-> validNQueens(startup.n, startup.output)]]
    /\ UNCHANGED <<trial, run, http, wire>>

NextJudge == JudgeBoard

SpecJudge == InitJudge /\ [][NextJudge]_vars

(***************************************************************************)
(* Observations shared by the claims about one trial.                      *)
(***************************************************************************)
TrialReturned == trial.pc = "done"
ScoreZero == trial.Score.num = 0
maxAttempts == trial.cfg.maxAttempts
maxIterations == trial.cfg.maxIters

\* The callMCPTool results that were successes, and the judge's verdict on them.
Succeeded(r) == r.err = <<>> /\ ~r.isError
Accepted(r) == Succeeded(r) /\ judge(trial.ec, r.output)
EveryTurnCalledTool ==
    \A i \in 1..Len(trial.messages) :
        trial.messages[i].Role = RoleAssistant => Len(trial.messages[i].ToolCalls) > 0
EveryInvocationSucceeded ==
    \A i \in 1..Len(trial.toolReturns) : Succeeded(trial.toolReturns[i])
Rejections ==
    Cardinality({i \in 1..Len(trial.toolReturns) : ~Accepted(trial.toolReturns[i])})

(***************************************************************************)
(* C1. Every result runEval returns has 0 <= attempts <= maxAttempts; a    *)
(* failed result has score 0; a passed result has attempts in              *)
(* 1..maxAttempts and score 2^-(attempts-1).                               *)
(***************************************************************************)
C1_ResultWellFormed ==
    TrialReturned =>
        /\ 0 <= trial.Attempts /\ trial.Attempts <= maxAttempts
        /\ ~trial.Passed => ScoreZero
        /\ trial.Passed =>
              /\ trial.Attempts \in 1..maxAttempts
              /\ trial.Score = Rat(1, Pow2(trial.Attempts - 1))

\* A passed result on a second attempt, and a failed one, are both returned.
C1_Witness ==
    /\ TrialReturned /\ trial.Passed /\ trial.Attempts = 2
    /\ trial.Score = Rat(1, 2)

(***************************************************************************)
(* C2. When every model turn carries a tool call and every invocation      *)
(* succeeds, with maxAttempts <= maxIterations: if the judge rejects the   *)
(* first k-1 outputs and accepts the k-th the result is passed, attempts = *)
(* k, score 2^-(k-1); if it rejects maxAttempts outputs the result is      *)
(* failed, attempts = maxAttempts, score 0.                                *)
(***************************************************************************)
C2_JudgedOutcome ==
    (/\ TrialReturned
     /\ EveryTurnCalledTool
     /\ EveryInvocationSucceeded
     /\ maxAttempts <= maxIterations)
    =>
        LET n == Len(trial.toolReturns) IN
        \/ /\ n >= 1
           /\ Accepted(trial.toolReturns[n])
           /\ Rejections = n - 1
           /\ trial.Passed
           /\ trial.Attempts = n
           /\ trial.Score = Rat(1, Pow2(n - 1))
        \/ /\ n = maxAttempts
           /\ Rejections = maxAttempts
           /\ ~trial.Passed
           /\ trial.Attempts = maxAttempts
           /\ ScoreZero

\* One rejection and then an acceptance (scenario B: attempts 2, score 1/2).
C2_Witness ==
    /\ TrialReturned /\ EveryTurnCalledTool /\ EveryInvocationSucceeded
    /\ maxAttempts <= maxIterations
    /\ Len(trial.toolReturns) = 2 /\ Rejections = 1
    /\ trial.Passed /\ trial.Score = Rat(1, 2)

(***************************************************************************)
(* C4. A trial terminates and makes at most maxIterations model            *)
(* round-trips; once maxIterations round-trips are used up without a pass  *)
(* it returns failed with score 0, also when attempts < maxAttempts.       *)
(***************************************************************************)
C4_BoundedTrial ==
    /\ [](trial.llmCalls <= maxIterations /\ trial.llmReplies <= trial.llmCalls)
    /\ <>(trial.pc \in {"done", "fatal"})
    /\ (trial.pc = "loop" /\ trial.llmReplies = maxIterations)
          ~> (TrialReturned /\ ~trial.Passed /\ ScoreZero)

\* The model never calls the tool: maxIterations round-trips and no attempt.
C4_Witness ==
    /\ TrialReturned /\ trial.llmReplies = maxIterations /\ maxIterations >= 2
    /\ trial.Attempts = 0 /\ trial.Attempts < maxAttempts
    /\ ~trial.Passed /\ ScoreZero

(***************************************************************************)
(* C5. A failed tool invocation (an error of the call, or a result flagged *)
(* isError) consumes exactly one attempt, appends one tool-result message  *)
(* with isError = true, the error text and the id of the call, and does    *)
(* not end the trial; at the next loop head the trial calls the model      *)
(* again if attempts and iterations remain, and returns failed otherwise.  *)
(***************************************************************************)
LastMessage(t) == t.messages[Len(t.messages)]
AfterToolError(t) ==
    /\ t.pc = "loop" /\ Len(t.toolReturns) > 0
    /\ ~(t.toolRet.err = <<>> /\ ~t.toolRet.isError)
    /\ LastMessage(t).ToolResult # NoToolResult

C5_ToolErrorStep ==
    [][/\ (trial.pc = "tool" /\ trial' # trial /\ ~Succeeded(trial'.toolRet)) =>
            /\ trial'.Attempts = trial.Attempts + 1
            /\ trial'.messages =
                 Append(trial.messages,
                        [Role |-> RoleUser, Text |-> <<>>, ToolCalls |-> <<>>,
                         ToolResult |->
                            [ToolCallID |-> trial.resp.ToolCalls[1].ID,
                             Content |-> IF trial'.toolRet.err # <<>>
                                         THEN trial'.toolRet.err
                                         ELSE trial'.toolRet.output,
                             IsError |-> TRUE]])
            /\ trial'.pc = "loop"
            /\ trial'.Passed = trial.Passed /\ trial'.Score = trial.Score
       /\ (AfterToolError(trial) /\ trial' # trial) =>
            IF trial.Attempts < maxAttempts /\ trial.iter < maxIterations
            THEN trial'.pc = "llm"
            ELSE trial'.pc = "done" /\ ~trial'.Passed /\ trial'.Score.num = 0
      ]_vars

\* The model is called again after a failed invocation.
C5_Witness ==
    /\ trial.pc = "llm" /\ trial.Attempts = 1
    /\ ~Succeeded(trial.toolRet) /\ Len(trial.toolReturns) = 1
    /\ LastMessage(trial).ToolResult # NoToolResult
    /\ LastMessage(trial).ToolResult.IsError

(***************************************************************************)
(* C6. A model response without a tool call appends the assistant turn and *)
(* exactly one nudge user message, consumes one iteration, and leaves      *)
(* attempts, outputs, passed and score unchanged.                          *)
(***************************************************************************)
C6_NoToolCallStep ==
    [][(/\ trial.pc = "llm" /\ trial' # trial
        /\ ~trial'.resp.err /\ Len(trial'.resp.ToolCalls) = 0) =>
            /\ trial'.messages =
                 trial.messages \o
                 << [Role |-> RoleAssistant, Text |-> trial'.resp.Text,
                     ToolCalls |-> <<>>, ToolResult |-> NoToolResult],
                    [Role |-> RoleUser, Text |-> UseToolNudge,
                     ToolCalls |-> <<>>, ToolResult |-> NoToolResult] >>
            /\ trial'.iter = trial.iter + 1
            /\ trial'.Attempts = trial.Attempts
            /\ trial'.Outputs = trial.Outputs
            /\ trial'.Passed = trial.Passed
            /\ trial'.Score = trial.Score
            /\ trial'.toolInvocations = trial.toolInvocations
      ]_vars

\* A nudge after a turn without a tool call, with an attempt already made.
C6_Witness ==
    /\ trial.pc = "loop" /\ trial.Attempts = 1 /\ trial.iter = 2
    /\ Len(trial.resp.ToolCalls) = 0
    /\ LastMessage(trial).Text = UseToolNudge

(***************************************************************************)
(* C7. A model turn with tool calls makes exactly one invocation, of the   *)
(* first call, and attempts grows by exactly 1 when it returns, whatever   *)
(* the outcome; a turn without tool calls makes none. Attempts equals the  *)
(* number of invocations that have returned.                               *)
(***************************************************************************)
C7_OneInvocationPerToolTurn ==
    /\ [](trial.toolInvocations =
             trial.Attempts + (IF trial.pc = "tool" THEN 1 ELSE 0))
    /\ [][/\ (trial.pc = "llm" /\ trial' # trial /\ ~trial'.resp.err) =>
               IF Len(trial'.resp.ToolCalls) > 0
               THEN /\ trial'.pc = "tool"
                    /\ trial'.toolInvocations = trial.toolInvocations + 1
                    /\ trial'.toolCall = trial'.resp.ToolCalls[1]
               ELSE /\ trial'.pc # "tool"
                    /\ trial'.toolInvocations = trial.toolInvocations
          /\ (trial.pc = "tool" /\ trial' # trial) =>
               /\ trial'.Attempts = trial.Attempts + 1
               /\ trial'.toolInvocations = trial.toolInvocations
          /\ (trial.pc \notin {"llm", "tool"}) =>
               /\ trial'.Attempts = trial.Attempts
               /\ trial'.toolInvocations = trial.toolInvocations
         ]_vars

\* A turn with two calls: the first one is being invoked.
C7_Witness ==
    /\ trial.pc = "tool" /\ Len(trial.resp.ToolCalls) = 2
    /\ trial.toolCall = CallB /\ trial.toolInvocations = 2

(***************************************************************************)
(* C8 (as stated). len(outputs) = attempts, and outputs[i] is the raw text *)
(* (success text or error text) of the i-th invocation.                    *)
(***************************************************************************)
RawText(r) == IF r.err # <<>> THEN r.err ELSE r.output

C8_OutputsAreRawTexts ==
    /\ Len(trial.Outputs) = trial.Attempts
    /\ Len(trial.toolReturns) = trial.Attempts
    /\ \A i \in 1..Len(trial.Outputs) : trial.Outputs[i] = RawText(trial.toolReturns[i])

(***************************************************************************)
(* C8 (amended). len(outputs) = attempts, and outputs[i] is the success    *)
(* text of the i-th invocation as returned, or its error text prefixed     *)
(* with "ERROR: ", in chronological order, whether or not it passed.       *)
(***************************************************************************)
C8_OutputsRecordEveryInvocation ==
    /\ Len(trial.Outputs) = trial.Attempts
    /\ Len(trial.toolReturns) = trial.Attempts
    /\ \A i \in 1..Len(trial.Outputs) :
          trial.Outputs[i] =
             IF Succeeded(trial.toolReturns[i])
             THEN trial.toolReturns[i].output
             ELSE <<"ERROR: ">> \o RawText(trial.toolReturns[i])

\* A rejected output, a tool error and an accepted output, in this order.
C8_Witness ==
    /\ TrialReturned /\ trial.Passed /\ trial.Attempts = 3
    /\ trial.Outputs = << <<"no", "\n">>, <<"ERROR: ", "boom">>, <<"ok">> >>

(***************************************************************************)
(* C3 (as stated). A failed model call inside one trial ends only that     *)
(* trial, which is recorded as failed with score 0; the run is not         *)
(* aborted: the process stays alive for the other units and the summary.   *)
(***************************************************************************)
ModelCallFailed(u) == run.units[u].trial.resp.err

C3_FailureIsolated ==
    \A u \in Units :
        ModelCallFailed(u) =>
            /\ run.phase # "exited"
            /\ run.units[u].pc \in {"release", "wgdone", "finished"} =>
                  /\ run.allResults[u].written
                  /\ ~run.allResults[u].Passed
                  /\ run.allResults[u].Score.num = 0

(***************************************************************************)
(* Observations shared by the claims about one SendMessage call.           *)
(***************************************************************************)
SendMessageReturned == http.pc = "returned"
CallerCancelled == http.result.kind = "canceled"
RateLimitError == callError("api error", StatusTooManyRequests)

\* A header value that is a decimal numeral, and the seconds it names as a
\* duration computed without wrapping.
IsNumeral(h) == h # <<>> /\ \A i \in 1..Len(h) : IsDigit(h[i])
ExactSeconds(h) == Mul(DecimalValue(h), Widen(Second))

(***************************************************************************)
(* C9 (as stated). A SendMessage call that its caller does not cancel      *)
(* issues at most 8 HTTP requests; when every response was 429 it has      *)
(* issued exactly 8 and returns an error carrying status 429.              *)
(***************************************************************************)
C9_ExhaustsEightRequests ==
    (SendMessageReturned /\ ~CallerCancelled) =>
        /\ http.requests <= maxRetries
        /\ http.all429 =>
              /\ http.requests = maxRetries
              /\ http.result = RateLimitError

(***************************************************************************)
(* C10 (as stated). After a 429 that is not the 8th attempt and whose      *)
(* Retry-After is a non-negative integer s, the timer is set to exactly s  *)
(* seconds (for s = 0: no timer, the next attempt starts at once), the     *)
(* backoff is neither used nor changed, and the next request follows the   *)
(* timer.                                                                  *)
(***************************************************************************)
C10_RetryAfterHonoured ==
    [][/\ (/\ http.pc = "send" /\ http' # http
           /\ ~http'.last.err
           /\ http'.last.StatusCode = StatusTooManyRequests
           /\ http.attempt < maxRetries - 1
           /\ IsNumeral(http'.last.RetryAfter)) =>
              /\ http'.backoff = http.backoff
              /\ Widen(http'.delay) = ExactSeconds(http'.last.RetryAfter)
              /\ IF IsZero(DecimalValue(http'.last.RetryAfter))
                 THEN /\ http'.pc = "send"
                      /\ http'.attempt = http.attempt + 1
                      /\ http'.waits = http.waits
                 ELSE http'.pc = "wait"
       /\ (http.pc = "wait" /\ http'.pc = "send") =>
              /\ http'.elapsed = Add(http.elapsed, http.delay)
              /\ http'.attempt = http.attempt + 1
              /\ http'.requests = http.requests
      ]_vars

(***************************************************************************)
(* C11 (as stated). The j-th retry that follows a 429 without a usable     *)
(* Retry-After header (one that is not a non-negative integer) waits a     *)
(* delay d with B*2^(j-1) <= d <= B*2^(j-1) + B*2^(j-1)/2, B being         *)
(* InitialBackoff, or 2 s when that is not positive; the backoff doubles   *)
(* at every such retry and changes at no other step.                       *)
(***************************************************************************)
HeaderlessRetry ==
    /\ http.pc = "send" /\ http' # http
    /\ ~http'.last.err
    /\ http'.last.StatusCode = StatusTooManyRequests
    /\ http.attempt < maxRetries - 1
    /\ ~IsNumeral(http'.last.RetryAfter)

C11_BackoffDoubles ==
    [][IF HeaderlessRetry
       THEN LET lo == Scale(initialBackoff(http.client), Pow2(http.doubled)) IN
            /\ http'.pc # "returned"
            /\ ~Less(http'.delay, lo)
            /\ ~Less(Add(lo, Half(lo)), http'.delay)
            /\ http'.backoff = Scale(lo, 2)
       ELSE http'.backoff = http.backoff
      ]_vars

(***************************************************************************)
(* C12. A network failure, or a response whose status is neither 429 nor   *)
(* 200, makes SendMessage return an error in the step that receives it:    *)
(* that request is the last one, no timer is set for it, and nothing       *)
(* follows the return; the same after earlier 429 retries.                 *)
(***************************************************************************)
FatalResponse(resp) ==
    resp.err \/ resp.StatusCode \notin {StatusTooManyRequests, StatusOK}

C12_FatalStatusNotRetried ==
    [][/\ (http.pc = "send" /\ http' # http /\ FatalResponse(http'.last)) =>
              /\ http'.pc = "returned"
              /\ http'.result = IF http'.last.err
                                THEN callError("network error", 0)
                                ELSE callError("api error", http'.last.StatusCode)
              /\ http'.requests = http.requests + 1
              /\ http'.waits = http.waits
              /\ http'.elapsed = http.elapsed
       /\ http.pc = "returned" => http' = http
      ]_vars

C12_Witness ==
    /\ SendMessageReturned
    /\ http.result = callError("api error", StatusInternalServerError)
    /\ http.requests >= 3
    /\ http.waits >= 1

(***************************************************************************)
(* C13. When the caller's context is cancelled while a retry timer is      *)
(* pending, the wait ends in that step: SendMessage has returned, its      *)
(* result is the cancellation error, and no request was sent after the     *)
(* cancellation.                                                           *)
(***************************************************************************)
C13_CancelledWaitReturns ==
    [][/\ http'.cancelled =>
              /\ http'.pc = "returned"
              /\ http'.result = callError("canceled", 0)
       /\ (~http.cancelled /\ http'.cancelled) =>
              /\ http.pc = "wait"
              /\ http'.requests = http.requests
              /\ http'.waits = http.waits
       /\ http.cancelled => http' = http
      ]_vars

C13_Witness ==
    /\ http.cancelled
    /\ SendMessageReturned
    /\ http.requests >= 2
    /\ http.waits >= 1

(***************************************************************************)
(* C14. When SendMessage has received k 429 responses (0 <= k <= 7) and    *)
(* then a 200 whose body parses, it has issued exactly k+1 requests and    *)
(* returns the parse of that last body alone: the content of its first     *)
(* choice, its tool calls in order with their ids, names and arguments,    *)
(* and its prompt and completion token counts.                             *)
(***************************************************************************)
ParsableOK(resp) ==
    /\ ~resp.err /\ resp.StatusCode = StatusOK
    /\ resp.body.json /\ Len(resp.body.value.Choices) > 0

C14_SuccessAfterRetries ==
    (SendMessageReturned /\ ParsableOK(http.last)) =>
        LET apiResp == http.last.body.value
            msg == apiResp.Choices[1].Message
            got == http.result.response
        IN
        /\ http.result.kind = "response"
        /\ http.requests \in 1..maxRetries
        /\ http.attempt = http.requests - 1
        /\ ~got.err
        /\ got.Text = msg.Content
        /\ Len(got.ToolCalls) = Len(msg.ToolCalls)
        /\ \A i \in 1..Len(msg.ToolCalls) :
              /\ got.ToolCalls[i].ID = msg.ToolCalls[i].ID
              /\ got.ToolCalls[i].Name = msg.ToolCalls[i].Function.Name
              /\ got.ToolCalls[i].Input = msg.ToolCalls[i].Function.Arguments
        /\ got.Usage.InputTokens = apiResp.Usage.PromptTokens
        /\ got.Usage.OutputTokens = apiResp.Usage.CompletionTokens

C14_Witness ==
    /\ SendMessageReturned
    /\ ParsableOK(http.last)
    /\ http.requests = maxRetries
    /\ http.waits >= 1

(***************************************************************************)
(* C15 (as stated). With either adapter a 429 reaches the caller as an     *)
(* error only when the retry bound is exhausted, so never after a single   *)
(* request.                                                                *)
(***************************************************************************)
C15_RateLimitRetriedByEveryAdapter ==
    (SendMessageReturned /\ http.result = RateLimitError) =>
        http.requests = maxRetries

(***************************************************************************)
(* Observations shared by the claims about a run.                          *)
(***************************************************************************)
\* A goroutine holds a permit from its send on sem to its receive from sem.
MidFlightPcs == {"trial", "write", "release"}
PendingCall(g) == g.trial.pc \in {"llm", "tool"}
AllFinished == \A u \in Units : run.units[u].pc = "finished"

(***************************************************************************)
(* C16. With more goroutines than permits and in every interleaving, at    *)
(* most 8 units are mid-flight (hold a permit); a unit with a pending      *)
(* client call or tool call is mid-flight, and a unit waiting on the gate  *)
(* has not started its trial.                                              *)
(***************************************************************************)
C16_AtMostEightMidFlight ==
    /\ CountOf(run.pool, MidFlightPcs) <= maxConcurrent
    /\ BagCardinality(run.pool) = GateRuns
    /\ \A g \in BagToSet(run.pool) :
          /\ PendingCall(g) => g.pc = "trial"
          /\ g.pc = "gate" => g.trial = runEvalStart(TheCase, GateConfig)

C16_Witness ==
    /\ run.phase = "running"
    /\ CountOf(run.pool, {"gate"}) >= 1
    /\ CountOf(run.pool, {"trial"}) = maxConcurrent
    /\ \A g \in BagToSet(run.pool) : g.pc = "trial" => PendingCall(g)

(***************************************************************************)
(* C17. The permits held always number the units between their acquire     *)
(* and their release; a unit that completes releases exactly one permit,   *)
(* in the step that ends its hold, whether its trial passed, failed or     *)
(* was cancelled; no other step takes a permit back; no permit is held     *)
(* once all units have finished.                                           *)
(***************************************************************************)
Holders == {u \in Units : run.units[u].pc \in MidFlightPcs}

C17_PermitsBalanced ==
    /\ [](/\ run.sem = Cardinality(Holders)
          /\ AllFinished => run.sem = 0)
    /\ [][\A u \in Units :
            /\ (run.units[u].pc = "release" /\ run'.units[u].pc # "release") =>
                  /\ run'.units[u].pc = "wgdone"
                  /\ run'.sem = run.sem - 1
            /\ (run.units[u].pc = "gate" /\ run'.units[u].pc # "gate") =>
                  /\ run'.units[u].pc = "trial"
                  /\ run'.sem = run.sem + 1
            /\ (run.units[u].pc \in {"wgdone", "finished"}) =>
                  run'.units[u].pc \in {"wgdone", "finished"}
         ]_vars

C17_Witness ==
    /\ AllFinished
    /\ run.cancelled
    /\ run.sem = 0
    /\ \E u, v \in Units : ~run.allResults[u].Passed /\ run.allResults[v].Passed

(***************************************************************************)
(* C18. |selected| x numRuns units are started; a slot (i, r) of the       *)
(* table is written at most once, by unit (i, r) alone, with the result of *)
(* a trial of selected[i]; every slot has been written when all units      *)
(* have finished.                                                          *)
(***************************************************************************)
C18_OwnSlotWrittenOnce ==
    /\ Cardinality(DOMAIN run.units) = Len(selected) * numRuns
    /\ \A s \in Units :
          /\ Len(run.writes[s]) <= 1
          /\ \A k \in 1..Len(run.writes[s]) : run.writes[s][k] = s
          /\ run.allResults[s].written <=> Len(run.writes[s]) = 1
          /\ run.allResults[s].written => run.allResults[s].ec = selected[s[1]]
          /\ run.units[s].pc \in {"release", "wgdone", "finished"} =>
                run.writes[s] = <<s>>
    /\ AllFinished => \A s \in Units : run.allResults[s].written

C18_Witness ==
    /\ run.phase = "summary"
    /\ \A s \in Units : run.summaryOf[s].written /\ run.writes[s] = <<s>>

(***************************************************************************)
(* C19 (as stated). After the interrupt signal every unit still finishes   *)
(* and the results written before it reach the summary: the process does   *)
(* not end before wg.Wait returns.                                         *)
(***************************************************************************)
C19_CancellationPreservesResults ==
    run.cancelled => run.phase # "exited"

(***************************************************************************)
(* C20. A message that carries a tool result and a nudge text (and no tool *)
(* call) becomes, in the role-message adapter, exactly two wire messages:  *)
(* first the tool message with the call id and the result content, then    *)
(* the user message with the nudge text; in the block adapter, exactly one *)
(* message with exactly two blocks: first the tool_result, then the text.  *)
(***************************************************************************)
Composite(m) == hasToolResult(m) /\ m.Text # <<>> /\ m.ToolCalls = <<>>

C20_CompositeTranslation ==
    (wire.pc = "translate" /\ Composite(wire.m)) =>
        /\ wire.openai.done =>
              LET out == wire.openai.messages IN
              /\ Len(out) = 2
              /\ out[1].Role = "tool"
              /\ out[1].ToolCallID = wire.m.ToolResult.ToolCallID
              /\ out[1].Content = wire.m.ToolResult.Content
              /\ out[2].Role = "user"
              /\ out[2].Content = wire.m.Text
              /\ out[2].ToolCalls = <<>>
        /\ wire.anthropic.done =>
              LET blocks == wire.anthropic.message.Content IN
              /\ Len(blocks) = 2
              /\ blocks[1].type = "tool_result"
              /\ blocks[1].tool_use_id = wire.m.ToolResult.ToolCallID
              /\ blocks[1].content = wire.m.ToolResult.Content
              /\ blocks[2].type = "text"
              /\ blocks[2].text = wire.m.Text

C20_Witness ==
    /\ wire.pc = "translate"
    /\ wire.m = toolResultWithNudge("call-1", <<"no", "\n">>, TryAgainNudge)
    /\ wire.openai.done
    /\ wire.anthropic.done

(***************************************************************************)
(* C21. In the role-message adapter an assistant message that carries tool *)
(* calls (and no tool result) is translated to exactly one wire message:   *)
(* role assistant, the message's text as content, and one call descriptor  *)
(* per tool call, in order, with the same id, name and arguments.  Stated  *)
(* for both revisions of toOpenAIMessages.                                 *)
(***************************************************************************)
AssistantWithCalls(m) ==
    m.Role = RoleAssistant /\ Len(m.ToolCalls) > 0 /\ ~hasToolResult(m)

RetainsTextAndCalls(m, out) ==
    /\ Len(out) = 1
    /\ out[1].Role = "assistant"
    /\ out[1].Content = m.Text
    /\ out[1].ToolCallID = ""
    /\ Len(out[1].ToolCalls) = Len(m.ToolCalls)
    /\ \A i \in 1..Len(m.ToolCalls) :
          /\ out[1].ToolCalls[i].ID = m.ToolCalls[i].ID
          /\ out[1].ToolCalls[i].Function.Name = m.ToolCalls[i].Name
          /\ out[1].ToolCalls[i].Function.Arguments = m.ToolCalls[i].Input

C21_AssistantCallsRetainText ==
    (wire.pc = "translate" /\ AssistantWithCalls(wire.m)) =>
        /\ wire.openai.done => RetainsTextAndCalls(wire.m, wire.openai.messages)
        /\ wire.provider.done => RetainsTextAndCalls(wire.m, wire.provider.messages)

(***************************************************************************)
(* C22. In the role-message adapter a message with no tool call and no     *)
(* tool result is translated to exactly one plain wire message with the    *)
(* same role and the text as content, whatever the text, the empty text    *)
(* included.                                                               *)
(***************************************************************************)
PlainMessage(m) == Len(m.ToolCalls) = 0 /\ ~hasToolResult(m)

C22_PlainMessageAlwaysPresent ==
    (wire.pc = "translate" /\ PlainMessage(wire.m) /\ wire.openai.done) =>
        wire.openai.messages = <<openAIMessage(wire.m.Role, wire.m.Text, <<>>, "")>>

(***************************************************************************)
(* C23. In both adapter families a 200 response with no actionable content *)
(* (role protocol: no choices; block protocol: no content blocks) makes    *)
(* SendMessage return a parse error and no MessageResponse.                *)
(***************************************************************************)
NoActionableContent(h) ==
    /\ ~h.last.err /\ h.last.StatusCode = StatusOK /\ h.last.body.json
    /\ IF h.client.adapter = "anthropic"
       THEN Len(h.last.body.value.Content) = 0
       ELSE Len(h.last.body.value.Choices) = 0

C23_EmptyResponseIsParseError ==
    (http.pc = "returned" /\ NoActionableContent(http)) =>
        http.result = callError("parse error", StatusOK)

(***************************************************************************)
(* C24. After a successful SendMessage of OllamaClient the returned tool   *)
(* calls are the provider's, in number, order, name and input; a call whose*)
(* provider id was non-empty keeps it, a call at index i whose id was      *)
(* missing has the id ollama_call_i, and no returned id is empty.          *)
(***************************************************************************)
ProviderCalls(h) ==
    LET msg == h.last.body.value.Choices[1].Message IN
    [k \in 1..Len(msg.ToolCalls) |-> OpenAIParseCall(msg.ToolCalls[k])]

OllamaSucceeded(h) ==
    h.pc = "returned" /\ h.client.adapter = "ollama" /\ h.result.kind = "response"

C24_MissingIdsPatched ==
    OllamaSucceeded(http) =>
        LET given == ProviderCalls(http)
            got == http.result.response.ToolCalls
        IN /\ Len(got) = Len(given)
           /\ \A k \in 1..Len(got) :
                 /\ got[k].Name = given[k].Name
                 /\ got[k].Input = given[k].Input
                 /\ got[k].ID # ""
                 /\ given[k].ID # "" => got[k].ID = given[k].ID
                 /\ given[k].ID = "" => got[k].ID = ollamaCallID(k)
           /\ \A j, k \in 1..Len(got) :
                 (given[j].ID = "" /\ given[k].ID = "" /\ j # k) => got[j].ID # got[k].ID

C24_Witness ==
    /\ OllamaSucceeded(http)
    /\ http.requests > 1
    /\ Len(http.result.response.ToolCalls) = 3
    /\ http.result.response.ToolCalls[1].ID = "ollama_call_0"
    /\ http.result.response.ToolCalls[2].ID = "call-2"
    /\ http.result.response.ToolCalls[3].ID = "ollama_call_2"

(***************************************************************************)
(* C25. Every tool-result message of a trial's history follows an          *)
(* assistant message with tool calls and carries the id of that message's  *)
(* first call; when it is appended, that id is the id of the first call of *)
(* the response the client returned for the turn.                          *)
(***************************************************************************)
AnswersPrevious(msgs, k) ==
    /\ k > 1
    /\ msgs[k - 1].Role = RoleAssistant
    /\ Len(msgs[k - 1].ToolCalls) > 0
    /\ msgs[k].ToolResult.ToolCallID = msgs[k - 1].ToolCalls[1].ID

C25_ResultAnswersFirstCall ==
    /\ [](\A k \in 1..Len(trial.messages) :
             hasToolResult(trial.messages[k]) => AnswersPrevious(trial.messages, k))
    /\ [][(trial.pc = "tool" /\ Len(trial'.messages) > Len(trial.messages)) =>
             LET added == trial'.messages[Len(trial'.messages)] IN
             /\ Len(trial'.messages) = Len(trial.messages) + 1
             /\ hasToolResult(added)
             /\ added.ToolResult.ToolCallID = trial.resp.ToolCalls[1].ID
             /\ trial.messages[Len(trial.messages)] = responseToHistory(trial.resp)
         ]_vars

\* Two turns whose first calls differ, each answered with its own id.
C25_Witness ==
    /\ Len(trial.messages) = 5
    /\ trial.messages[2].ToolCalls = <<CallA>>
    /\ trial.messages[3].ToolResult.ToolCallID = "call-1"
    /\ trial.messages[4].ToolCalls = <<CallB, CallA>>
    /\ hasToolResult(trial.messages[5])
    /\ trial.messages[5].ToolResult.ToolCallID = "call-2"

(***************************************************************************)
(* What a tier spec denotes: the empty spec every tier, a numeral N >= 1   *)
(* the tier N, "N-M" with 1 <= N <= M the tiers N..M; nothing else is a    *)
(* tier spec.                                                              *)
(***************************************************************************)
Left(s) == SubSeq(s, 1, Index(s, "-") - 1)
Right(s) == SubSeq(s, Index(s, "-") + 1, Len(s))
SingleTier(s) == AllDigits(s) /\ ~Less(Atoi(s).value, I64(1))
TierInterval(s) ==
    /\ Index(s, "-") > 0 /\ AllDigits(Left(s)) /\ AllDigits(Right(s))
    /\ ~Less(Atoi(Left(s)).value, I64(1))
    /\ ~Less(Atoi(Right(s)).value, Atoi(Left(s)).value)
ValidTierSpec(s) == s = <<>> \/ SingleTier(s) \/ TierInterval(s)

\* The tiers denoted by a spec that is read as N or as N-M.
TierDenoted(s, tier) ==
    IF s = <<>> THEN TRUE
    ELSE IF Index(s, "-") = 0 THEN Atoi(s).value = I64(tier)
    ELSE ~Less(I64(tier), Atoi(Left(s)).value) /\ ~Less(Atoi(Right(s)).value, I64(tier))

NameDenoted(pattern, name) == pattern = <<>> \/ Match(pattern, name).matched

(***************************************************************************)
(* C26. Whenever filterCases returns no error, its result is the           *)
(* subsequence of the input, in the input's order, of exactly the cases    *)
(* whose name matches the glob (the empty pattern matches all) and whose   *)
(* tier is denoted by the spec (empty: all, N: tier N, N-M: N..M); with    *)
(* both empty it is the whole input.                                       *)
(***************************************************************************)
C26_FilterSelectsExactly ==
    (startup.pc = "filter" /\ startup.result.done /\ ~startup.result.value.err) =>
        /\ startup.result.value.out =
              SelectSeq(startup.all,
                        LAMBDA ec : /\ NameDenoted(startup.pattern, ec.name)
                                    /\ TierDenoted(startup.tierSpec, ec.tier))
        /\ (startup.pattern = <<>> /\ startup.tierSpec = <<>>) =>
              startup.result.value.out = startup.all

(***************************************************************************)
(* C27. parseTierSpec returns (0, 0) for the empty spec, (N, N) for a      *)
(* numeral N >= 1, (N, M) for "N-M" with 1 <= N <= M, and an error for     *)
(* every other input; filterCases returns an error for every such input,   *)
(* so that a spec naming a tier below 1 selects nothing.                   *)
(***************************************************************************)
ExpectedTierSpec(s) ==
    IF s = <<>> THEN tierRange(I64(0), I64(0))
    ELSE IF SingleTier(s) THEN tierRange(Atoi(s).value, Atoi(s).value)
    ELSE IF TierInterval(s) THEN tierRange(Atoi(Left(s)).value, Atoi(Right(s)).value)
    ELSE tierError

C27_TierSpecParsedOrRejected ==
    startup.pc = "filter" =>
        /\ startup.parsed.done =>
              startup.parsed.value = ExpectedTierSpec(startup.tierSpec)
        /\ (startup.result.done /\ ~ValidTierSpec(startup.tierSpec)) =>
              startup.result.value.err

(***************************************************************************)
(* C28. A run whose flags are malformed (-max-attempts < 1, -max-iters <   *)
(* 1, a bad tier spec, a bad filter pattern, a model string without a      *)
(* provider prefix, a value flag.Parse rejects), whose provider is unknown *)
(* or whose flags select no case ends with a non-zero status before any    *)
(* goroutine starts: no permit is taken, no model or tool call is made.    *)
(***************************************************************************)
SelectsNothing(f) ==
    SelectSeq(cases, LAMBDA ec : /\ NameDenoted(f.filter, ec.name)
                                 /\ TierDenoted(f.tier, ec.tier)) = <<>>

Malformed(f) ==
    \/ f.unparsable
    \/ f.maxAttempts < 1
    \/ f.maxIters < 1
    \/ ~ValidTierSpec(f.tier)
    \/ ~WellFormed(f.filter)
    \/ Index(f.llm, ":") = 0
    \/ ParseModel(f.llm).provider \notin Providers
    \/ SelectsNothing(f)

C28_MalformedRunExitsBeforeTrials ==
    /\ [](startup.pc = "exited" => (startup.status # 0 /\ run = RunIdle))
    /\ []((startup.pc \in {"flags", "exited"} /\ Malformed(startup.flags)) =>
             run = RunIdle)
    /\ [][(startup.pc = "flags" /\ Malformed(startup.flags) /\ startup' # startup) =>
             (startup'.pc = "exited" /\ startup'.status # 0)]_vars

(***************************************************************************)
(* C29. A trial has at most one call outstanding: a tool call is issued    *)
(* only in the step in which the model call of the turn returns, and a     *)
(* model call only when no call is outstanding.                            *)
(***************************************************************************)
OutstandingModelCalls(t) == t.llmCalls - Len(t.llmReturns)
OutstandingToolCalls(t) == t.toolInvocations - Len(t.toolReturns)

C29_OneCallOutstanding ==
    /\ [](/\ OutstandingModelCalls(trial) = (IF trial.pc = "llm" THEN 1 ELSE 0)
          /\ OutstandingToolCalls(trial) = (IF trial.pc = "tool" THEN 1 ELSE 0))
    /\ [][/\ trial'.toolInvocations > trial.toolInvocations =>
               /\ trial'.toolInvocations = trial.toolInvocations + 1
               /\ OutstandingModelCalls(trial) = 1
               /\ OutstandingModelCalls(trial') = 0
               /\ OutstandingToolCalls(trial) = 0
          /\ trial'.llmCalls > trial.llmCalls =>
               /\ trial'.llmCalls = trial.llmCalls + 1
               /\ OutstandingModelCalls(trial) = 0
               /\ OutstandingToolCalls(trial) = 0
               /\ Len(trial.toolReturns) = trial.toolInvocations
         ]_vars

\* The tool call of the second turn is outstanding; both model calls and
\* the first tool call have returned.
C29_Witness ==
    /\ trial.pc = "tool"
    /\ trial.llmCalls = 2 /\ Len(trial.llmReturns) = 2
    /\ trial.toolInvocations = 2 /\ Len(trial.toolReturns) = 1

(***************************************************************************)
(* C30. Under every interleaving the state of a unit's trial, its message  *)
(* history included, is the one runEval reaches from the unit's own case   *)
(* with the responses and tool outcomes the unit itself received, in       *)
(* order; a step of one unit leaves the trials of the others as they are;  *)
(* and the EvalResult in a unit's slot is the result of that replay, so    *)
(* that it is the same in every schedule that gives the unit the same      *)
(* responses and outcomes.                                                 *)
(***************************************************************************)
RECURSIVE Replay(_, _, _)
Replay(t, replies, returns) ==
    IF t.pc = "loop" THEN Replay(runEvalLoopHead(t), replies, returns)
    ELSE IF t.pc = "llm" /\ replies # <<>>
    THEN Replay(runEvalLLMReturn(t, Head(replies)), Tail(replies), returns)
    ELSE IF t.pc = "tool" /\ returns # <<>>
    THEN Replay(runEvalToolReturn(t, Head(returns)), replies, Tail(returns))
    ELSE t

OwnReplay(u) ==
    Replay(runEvalStart(selected[u[1]], RunConfig),
           run.units[u].trial.llmReturns, run.units[u].trial.toolReturns)

AtNextCall(t) == IF t.pc = "loop" THEN runEvalLoopHead(t) ELSE t

IsInteger(s) ==
    \/ IsNumeral(s)
    \/ Len(s) > 1 /\ s[1] = "-" /\ IsNumeral(Tail(s))
NonNegativeInteger(s) ==
    IsNumeral(s) \/ (IsInteger(s) /\ IsZero(DecimalValue(Tail(s))))
SecondsNamed(s) == IF IsNumeral(s) THEN ExactSeconds(s) ELSE Wide(0)

C33_RetryAfterParsed ==
    (http.pc = "header" /\ http.parsed.done) =>
        /\ IF NonNegativeInteger(http.s)
           THEN Widen(http.parsed.delay) = SecondsNamed(http.s)
           ELSE http.parsed.delay = Absent
        /\ IsNeg(http.parsed.delay) => http.parsed.delay = Absent

(***************************************************************************)
(* C39. In a response returned by OllamaClient.SendMessage the tool-call   *)
(* ids are pairwise distinct whenever the non-empty ids the provider       *)
(* supplied are pairwise distinct.                                         *)
(***************************************************************************)
Distinct(ids) == \A j, k \in 1..Len(ids) : j # k => ids[j] # ids[k]

SuppliedIdsDistinct(calls) ==
    \A j, k \in 1..Len(calls) :
        (j # k /\ calls[j].ID # "" /\ calls[k].ID # "") => calls[j].ID # calls[k].ID

C39_PatchedIdsDistinct ==
    (OllamaSucceeded(http) /\ SuppliedIdsDistinct(ProviderCalls(http))) =>
        Distinct([k \in 1..Len(http.result.response.ToolCalls) |->
                     http.result.response.ToolCalls[k].ID])

(***************************************************************************)
(* C40. For every positive InitialBackoff and every run of 429 responses   *)
(* without a usable Retry-After header, each delay is computed without     *)
(* failing: the bound backoff / 2 given to rand.Int64N is positive, the    *)
(* draw does not panic, and the doubled backoff is positive and larger.    *)
(***************************************************************************)
PositiveInitialBackoff(h) ==
    /\ h.client.adapter = "openai"
    /\ ~IsNeg(h.client.InitialBackoff) /\ ~IsZero(h.client.InitialBackoff)

C40_JitterBoundValid ==
    [][(HeaderlessRetry /\ PositiveInitialBackoff(http)) =>
          /\ Less(I64(0), Half(http.backoff))
          /\ http'.result.kind # "panic"
          /\ http'.pc # "returned"
          /\ http'.backoff = Add(http.backoff, http.backoff)
          /\ Less(http.backoff, http'.backoff)
      ]_vars

(***************************************************************************)
(* C35. The summary starts only after every unit has finished: each has    *)
(* written its slot and released its permit.  The slots are read at the    *)
(* summary and not before, every slot read has been written, and nothing   *)
(* is written once the summary has started.                                *)
(***************************************************************************)
C35_SummaryAfterAllUnits ==
    /\ [](run.phase = "summary" =>
             /\ \A u \in Units :
                   run.units[u].pc = "finished" /\ run.allResults[u].written
             /\ run.sem = 0
             /\ run.wg = 0
             /\ run.summaryOf = run.allResults)
    /\ [](run.phase # "summary" => run.summaryOf = <<>>)
    /\ [][run.phase = "summary" => run' = run]_vars

\* The summary of a run in which a trial passed.
C35_Witness ==
    /\ run.phase = "summary"
    /\ \A u \in Units : Len(run.writes[u]) = 1
    /\ \E u \in Units : run.summaryOf[u].Passed

(***************************************************************************)
(* C37. Every message list given to SendMessage has odd length, begins     *)
(* with the case prompt as a user message, alternates user and assistant,  *)
(* and ends with a user message; a response appends exactly one assistant  *)
(* message, and the turn appends exactly one user message after it unless  *)
(* the trial ends with that turn.                                          *)
(***************************************************************************)
Alternates(msgs) ==
    \A k \in 1..Len(msgs) :
        msgs[k].Role = (IF k % 2 = 1 THEN RoleUser ELSE RoleAssistant)

Appended(t, u) == SubSeq(u.messages, Len(t.messages) + 1, Len(u.messages))

C37_HistoryAlternates ==
    /\ [](trial.pc = "llm" =>
             /\ Len(trial.messages) % 2 = 1
             /\ Alternates(trial.messages)
             /\ trial.messages[1] = Message(RoleUser, trial.ec.prompt, <<>>, NoToolResult))
    /\ [][/\ (trial.pc = "llm" /\ trial'.pc \in {"loop", "tool"}) =>
               /\ Len(Appended(trial, trial')) = (IF trial'.pc = "tool" THEN 1 ELSE 2)
               /\ Appended(trial, trial')[1] = responseToHistory(trial'.resp)
               /\ Appended(trial, trial')[1].Role = RoleAssistant
               /\ trial'.pc = "loop" => Appended(trial, trial')[2] = nudgeMessage(UseToolNudge)
          /\ (trial.pc = "tool" /\ trial' # trial) =>
               /\ Len(Appended(trial, trial')) <= 1
               /\ \A k \in 1..Len(Appended(trial, trial')) :
                     /\ Appended(trial, trial')[k].Role = RoleUser
                     /\ hasToolResult(Appended(trial, trial')[k])
               /\ (trial'.pc = "loop" /\ loopContinues(trial')) =>
                     Len(Appended(trial, trial')) = 1
          /\ (trial.pc \notin {"llm", "tool"}) => trial'.messages = trial.messages
         ]_vars

\* The third model call of a trial: after a turn without a tool call and a
\* turn whose tool call was judged wrong.
C37_Witness ==
    /\ trial.pc = "llm"
    /\ Len(trial.messages) = 5
    /\ trial.messages[3].Text = UseToolNudge
    /\ hasToolResult(trial.messages[5])
    /\ trial.messages[5].Text = TryAgainNudge

(***************************************************************************)
(* C38. With more goroutines than permits, unless a failed model call ends *)
(* the process, every goroutine eventually gets a permit, finishes and     *)
(* gives the permit back, wg.Wait returns and the summary is produced.     *)
(***************************************************************************)
C38_EveryUnitServed ==
    <>(\/ run.phase = "exited"
       \/ /\ run.phase = "summary"
          /\ CountOf(run.pool, {"finished"}) = GateRuns
          /\ BagCardinality(run.written) = GateRuns
          /\ run.sem = 0)

C38_Witness ==
    /\ run.phase = "summary"
    /\ CountOf(run.pool, {"finished"}) = GateRuns
    /\ GateRuns > maxConcurrent
    /\ BagCardinality(run.summaryOf) = GateRuns

(***************************************************************************)
(* C31. A model call that fails on its own (its deadline passes while the  *)
(* shared context is live) fails alone: the run goes on, the shared        *)
(* context stays live and every sibling goroutine is left as it was, free  *)
(* to continue.                                                            *)
(***************************************************************************)
CallFailsAlone(u) ==
    /\ run.phase = "running"
    /\ ~run.cancelled
    /\ run.units[u].pc = "trial"
    /\ run.units[u].trial.pc = "llm"
    /\ run'.units[u].trial.pc = "fatal"

C31_CallDeadlineIsLocal ==
    [][\A u \in Units :
          CallFailsAlone(u) =>
             /\ run'.phase = "running"
             /\ ~run'.cancelled
             /\ \A v \in Units \ {u} : run'.units[v] = run.units[v]
      ]_vars

(***************************************************************************)
(* C32. The table has one row per selected case, whose figures are the     *)
(* pass count over numRuns, the mean score, the mean attempts and the      *)
(* token sums of exactly that case's runs; the tier lines and the overall  *)
(* line count every run: |selected| * numRuns runs, every passed trial,    *)
(* and the tokens of every trial.                                          *)
(***************************************************************************)
RunsOf(results) == {<<i, r>> : i \in 1..Len(results), r \in 1..run.numRuns}

\* The score of a run as a count of 1/4s, and the other figures of a run.
Figure(kind, r) ==
    CASE kind = "quarters" -> (4 * r.Score.num) \div r.Score.den
      [] kind = "passed" -> IF r.Passed THEN 1 ELSE 0
      [] kind = "attempts" -> r.Attempts
      [] kind = "tokensIn" -> r.TokensIn
      [] kind = "tokensOut" -> r.TokensOut

RECURSIVE SumOver(_, _, _)
SumOver(S, results, kind) ==
    IF S = {} THEN 0
    ELSE LET u == CHOOSE u \in S : TRUE IN
         Figure(kind, results[u[1]].Runs[u[2]]) + SumOver(S \ {u}, results, kind)

RowIsOf(row, i, results) ==
    LET S == {i} \X (1..run.numRuns) IN
    /\ row.name = results[i].ec.name
    /\ row.n = run.numRuns
    /\ row.passed = Cardinality({u \in S : results[u[1]].Runs[u[2]].Passed})
    /\ RatEq(row.passRate, Rat(100 * row.passed, run.numRuns))
    /\ RatEq(row.avgScore, Rat(SumOver(S, results, "quarters"), 4 * run.numRuns))
    /\ RatEq(row.avgAttempts, Rat(SumOver(S, results, "attempts"), run.numRuns))
    /\ row.tokensIn = SumOver(S, results, "tokensIn")
    /\ row.tokensOut = SumOver(S, results, "tokensOut")

RECURSIVE ProgramBytes(_)
ProgramBytes(program) ==
    IF program = <<>> THEN 0 ELSE Head(program) + 1 + ProgramBytes(Tail(program))

Overflows == wire.pc = "running" /\ wire.next <= Len(wire.program)
             /\ bufLen(wire.buf) + wire.program[wire.next] + 1 > maxOutputLen

C34_OutputBounded ==
    /\ [](wire.pc \in {"running", "ok", "error"} =>
            /\ bufLen(wire.buf) <= maxOutputLen
            /\ bufLen(wire.output) <= maxOutputLen
            /\ wire.dropped > 0 => wire.pc # "ok" /\ wire.cancelReason # <<>>
            /\ wire.pc = "error" => wire.output = <<>> /\ wire.err # <<>>
            /\ wire.pc = "ok" =>
                 /\ ProgramBytes(wire.program) <= maxOutputLen
                 /\ wire.output = [k \in 1..Len(wire.program) |-> wire.program[k] + 1]
                 /\ wire.err = <<>>
            /\ (wire.pc = "error" /\ ProgramBytes(wire.program) <= maxOutputLen) =>
                 wire.cancelReason = <<"context deadline exceeded">>)
    /\ [][Overflows =>
            /\ wire'.buf = wire.buf
            /\ wire'.cancelReason # <<>>
            /\ wire'.pc # "ok"
         ]_vars

\* Two prints of 8191 bytes fill the buffer exactly and are returned.
C34_Witness ==
    /\ wire.pc = "ok"
    /\ wire.program = <<8191, 8191>>
    /\ bufLen(wire.output) = maxOutputLen

\* Two prints of 8192 bytes: the second is dropped and the call fails.
C34_WitnessOverflow ==
    /\ wire.pc = "error"
    /\ wire.program = <<8192, 8192>>
    /\ wire.buf = <<8193>>
    /\ wire.cancelReason = <<"output length ", 16386, " bytes exceeded ", maxOutputLen, " bytes">>

(***************************************************************************)
(* C36. validNQueens(n) accepts an output exactly when it is a solution:   *)
(* n lines of n cells, each Q or ., n queens, no two of them in one row,   *)
(* one column or one diagonal.                                             *)
(***************************************************************************)
QueensOf(lines) ==
    {rc \in (1..Len(lines)) \X (1..Len(lines)) : lines[rc[1]][rc[2]] = "Q"}

Attack(p, q) ==
    \/ p[1] = q[1]
    \/ p[2] = q[2]
    \/ p[1] - p[2] = q[1] - q[2]
    \/ p[1] + p[2] = q[1] + q[2]

IsSolution(n, lines) ==
    /\ Len(lines) = n
    /\ \A r \in 1..n : Len(lines[r]) = n /\ \A c \in 1..n : lines[r][c] \in {"Q", "."}
    /\ Cardinality(QueensOf(lines)) = n
    /\ \A p, q \in QueensOf(lines) : p # q => ~Attack(p, q)

C36_AcceptsExactlySolutions ==
    (startup.pc = "judge" /\ startup.verdict.done) =>
       (startup.verdict.value <=> IsSolution(startup.n, startup.output))

====
